---- MODULE Spec2Model ----
(***************************************************************************)
(* Cavern: the chunk streaming manager (UCaveWorldSubsystem) and the chunk *)
(* generation pipeline (ACaveChunk), as state machines.                    *)
(*                                                                         *)
(* Numbers.  World positions are integers (world units).  Densities are    *)
(* fixed-point integers with DensityOne units per 1.0, so that the         *)
(* interpolation tolerance 0.00001 is ten units.  Vertex positions are     *)
(* fixed-point integers with PosOne units per world unit, so that the      *)
(* default merge distance 0.1 is one unit.  A priority 10000/(d+1) is kept *)
(* as the squared distance it was computed from (see CalculateChunkPriority*)
(* and PriorityGreater): the comparison of two priorities is then exact.   *)
(***************************************************************************)
EXTENDS Integers, Sequences, FiniteSets, TLC

(***************************************************************************)
(* Bounds of the model.                                                    *)
(***************************************************************************)
\* voxels per chunk axis used by the manager (the default is 64)
ModelChunkSize == 2
\* world units per voxel (the default is 50)
ModelVoxelSize == 2
\* largest ChunksPerFrame setting explored
MaxChunksPerFrame == 2
\* largest ChunksPerFrame setting explored with asynchronous generation
MaxAsyncChunksPerFrame == 1
\* driver-thread operations per behaviour (world time is counted in them)
MaxTime == 4
\* failed SpawnActor calls per behaviour
MaxSpawnFailures == 1
\* largest ViewDistance setting explored
MaxViewDistance == 3
\* ChunksPerFrame of the manager whose pool is filled: two ticks make more
\* chunks than the pool can take
PoolChunksPerFrame == 26

(***************************************************************************)
(* Fixed-point scales and program constants.                               *)
(***************************************************************************)
DensityOne == 1000000
InterpTolerance == 10
PosOne == 10
MaxPoolSize == 50
MaxValidChunkSize == 128
CenterOffsetFactor == 50
VerticalRange == 2
DefaultVoxelSize == 50
DefaultMinVertices == 80000

Abs(x) == IF x < 0 THEN -x ELSE x
Min(a, b) == IF a < b THEN a ELSE b
Max(a, b) == IF a > b THEN a ELSE b
Clamp(x, lo, hi) == IF x < lo THEN lo ELSE IF x > hi THEN hi ELSE x

\* F applied to the value of val, which is computed once
Bind(val, F(_)) == CHOOSE r \in {F(x) : x \in {val}} : TRUE

\* a loop whose body is Step(acc, i), for i from lo to hi: the lower half of
\* the range, then the upper half from what the lower half leaves
RECURSIVE Loop(_, _, _, _)
Loop(Step(_, _), acc, lo, hi) ==
    IF lo > hi THEN acc
    ELSE IF lo = hi THEN Step(acc, lo)
    ELSE Bind(Loop(Step, acc, lo, (lo + hi) \div 2),
              LAMBDA half : Loop(Step, half, (lo + hi) \div 2 + 1, hi))

\* floor(a / b) for b # 0
FloorDiv(a, b) == IF b > 0 THEN a \div b ELSE (-a) \div (-b)

VecAdd(a, b) == <<a[1] + b[1], a[2] + b[2], a[3] + b[3]>>
VecScale(a, k) == <<a[1] * k, a[2] * k, a[3] * k>>
DistSquared(a, b) ==
    (a[1] - b[1]) * (a[1] - b[1]) + (a[2] - b[2]) * (a[2] - b[2])
        + (a[3] - b[3]) * (a[3] - b[3])

\* the elements of a sequence
Range(s) == {s[i] : i \in 1..Len(s)}

(***************************************************************************)
(* ACaveChunk: density.                                                    *)
(***************************************************************************)
\* GenerateDensityAt is a pure function of the world position built on the
\* engine's FMath::PerlinNoise3D.  The engine's noise is represented by a
\* fixed field with the same shape: solid rock (+0.5) with isolated air
\* pockets (-0.5), here at the points whose three coordinates are all
\* multiples of 6.  For the voxel sizes used no two pockets share a cube.
DensityAt(WorldPosition) ==
    IF \A i \in 1..3 : WorldPosition[i] % 6 = 0
    THEN -(DensityOne \div 2)
    ELSE DensityOne \div 2

\* the density loop of GenerateDensityField and of the worker of
\* GenerateMeshAsync: Index = X + Y*SampleSize + Z*SampleSize*SampleSize
DensityFieldAt(ActorLocation, LocalVoxelSize, LocalChunkSize) ==
    LET SampleSize == LocalChunkSize + 1
        FieldSize == SampleSize * SampleSize * SampleSize
    IN  [i \in 1..FieldSize |->
            LET Index == i - 1
                X == Index % SampleSize
                Y == (Index \div SampleSize) % SampleSize
                Z == Index \div (SampleSize * SampleSize)
            IN  DensityAt(VecAdd(ActorLocation, VecScale(<<X, Y, Z>>, LocalVoxelSize)))]

\* TArray<float>::SetNum on a fresh array: zero-filled
ZeroField(LocalChunkSize) ==
    LET SampleSize == LocalChunkSize + 1
    IN  [i \in 1..(SampleSize * SampleSize * SampleSize) |-> 0]

(***************************************************************************)
(* Marching cubes tables (MarchingCubesTables.h): the standard tables.     *)
(***************************************************************************)
VertexOffsets ==
    [i \in 0..7 |->
        CASE i = 0 -> <<0, 0, 0>> [] i = 1 -> <<1, 0, 0>>
          [] i = 2 -> <<1, 1, 0>> [] i = 3 -> <<0, 1, 0>>
          [] i = 4 -> <<0, 0, 1>> [] i = 5 -> <<1, 0, 1>>
          [] i = 6 -> <<1, 1, 1>> [] i = 7 -> <<0, 1, 1>>]

EdgeConnections ==
    [i \in 0..11 |->
        CASE i = 0 -> <<0, 1>> [] i = 1 -> <<1, 2>> [] i = 2 -> <<2, 3>>
          [] i = 3 -> <<3, 0>> [] i = 4 -> <<4, 5>> [] i = 5 -> <<5, 6>>
          [] i = 6 -> <<6, 7>> [] i = 7 -> <<7, 4>> [] i = 8 -> <<0, 4>>
          [] i = 9 -> <<1, 5>> [] i = 10 -> <<2, 6>> [] i = 11 -> <<3, 7>>]

\* bit i of a configuration index
Bit(n, i) == (n \div (2 ^ i)) % 2

\* EdgeTable[cubeIndex] as the set of its set bits: in the standard table
\* edge i is active exactly when its two corners lie on different sides
EdgeTable(cubeIndex) ==
    {i \in 0..11 :
        Bit(cubeIndex, EdgeConnections[i][1]) # Bit(cubeIndex, EdgeConnections[i][2])}

\* TriTable[cubeIndex] up to its terminating -1: the rows of the empty
\* configurations and of the eight one-corner configurations, which are the
\* only ones the density field above produces
TriTable(cubeIndex) ==
    CASE cubeIndex = 0 -> <<>>
      [] cubeIndex = 255 -> <<>>
      [] cubeIndex = 1 -> <<0, 8, 3>>
      [] cubeIndex = 2 -> <<0, 1, 9>>
      [] cubeIndex = 4 -> <<1, 2, 10>>
      [] cubeIndex = 8 -> <<3, 11, 2>>
      [] cubeIndex = 16 -> <<4, 7, 8>>
      [] cubeIndex = 32 -> <<9, 5, 4>>
      [] cubeIndex = 64 -> <<10, 6, 5>>
      [] cubeIndex = 128 -> <<7, 6, 11>>

\* EdgeKey without the edge's axis in the key
EdgeKeyWithoutAxis(x, y, z, edge, sampleSize) ==
    (((z * sampleSize) + y) * sampleSize + x) * 16

(***************************************************************************)
(* ACaveChunk: surface extraction with the edge-vertex cache.              *)
(***************************************************************************)
EdgeKey(x, y, z, edge, sampleSize) ==
    (((z * sampleSize) + y) * sampleSize + x) * 16 + edge

\* the Sample lambda: clamped read of the density array
Sample(DensityData, SampleSize, LocalChunkSize, x, y, z) ==
    LET cx == Clamp(x, 0, LocalChunkSize)
        cy == Clamp(y, 0, LocalChunkSize)
        cz == Clamp(z, 0, LocalChunkSize)
    IN  DensityData[cx + cy * SampleSize + cz * SampleSize * SampleSize + 1]

\* GetCubeConfiguration with the surface at density zero, whatever the
\* threshold
GetCubeConfigurationAtZero(c, Threshold) ==
    LET b(i) == IF c[i] < 0 THEN 2 ^ i ELSE 0
    IN  b(0) + b(1) + b(2) + b(3) + b(4) + b(5) + b(6) + b(7)

\* GetCubeConfiguration: bit i is set when corner i is below the threshold
\* (c is indexed 0..7)
GetCubeConfiguration(c, Threshold) ==
    LET b(i) == IF c[i] < Threshold THEN 2 ^ i ELSE 0
    IN  b(0) + b(1) + b(2) + b(3) + b(4) + b(5) + b(6) + b(7)

\* Interp with the test of V2 before the test of V1
InterpSecondFirst(P1, P2, V1, V2, Threshold) ==
    IF Abs(Threshold - V2) < InterpTolerance THEN P2
    ELSE IF Abs(Threshold - V1) < InterpTolerance THEN P1
    ELSE IF Abs(V1 - V2) < InterpTolerance THEN P1
    ELSE [i \in 1..3 |->
            P1[i] + FloorDiv((Threshold - V1) * (P2[i] - P1[i]), V2 - V1)]

\* the Interp lambda (and InterpolateVertex, InterpolateVertexLocal): P1,
\* P2 are positions in PosOne units
Interp(P1, P2, V1, V2, Threshold) ==
    IF Abs(Threshold - V1) < InterpTolerance THEN P1
    ELSE IF Abs(Threshold - V2) < InterpTolerance THEN P2
    ELSE IF Abs(V1 - V2) < InterpTolerance THEN P1
    ELSE [i \in 1..3 |->
            P1[i] + FloorDiv((Threshold - V1) * (P2[i] - P1[i]), V2 - V1)]

\* whether Interp gets to its division: none of the three tests returned
InterpDivides(V1, V2, Threshold) ==
    /\ ~(Abs(Threshold - V1) < InterpTolerance)
    /\ ~(Abs(Threshold - V2) < InterpTolerance)
    /\ ~(Abs(V1 - V2) < InterpTolerance)

\* ACaveChunk::InterpolateVertex: the threshold is the member
InterpolateVertex(CaveThreshold, P1, P2, V1, V2) == Interp(P1, P2, V1, V2, CaveThreshold)

\* One pass of the edge loop of a cube: edge i of the cube at (x, y, z).
\* acc = [Vertices, Cache, vlist]; Cache maps an edge key to a vertex index.
EdgeStep(acc, i, x, y, z, c, SampleSize, LocalVoxelSize, Threshold) ==
    LET e1 == EdgeConnections[i][1]
        e2 == EdgeConnections[i][2]
        v1o == VertexOffsets[e1]
        v2o == VertexOffsets[e2]
        P1 == VecScale(VecAdd(<<x, y, z>>, v1o), LocalVoxelSize * PosOne)
        P2 == VecScale(VecAdd(<<x, y, z>>, v2o), LocalVoxelSize * PosOne)
        d == <<v2o[1] - v1o[1], v2o[2] - v1o[2], v2o[3] - v1o[3]>>
        axis == IF d[1] # 0 THEN 0 ELSE IF d[2] # 0 THEN 1 ELSE 2
        a == VecAdd(<<x, y, z>>,
                    <<Min(v1o[1], v2o[1]), Min(v1o[2], v2o[2]), Min(v1o[3], v2o[3])>>)
    IN  Bind(EdgeKey(a[1], a[2], a[3], axis, SampleSize), LAMBDA key :
            IF key \in DOMAIN acc.Cache
            THEN [Vertices |-> acc.Vertices,
                  Cache |-> acc.Cache,
                  vlist |-> (i :> acc.Cache[key]) @@ acc.vlist]
            ELSE [Vertices |-> Append(acc.Vertices,
                                      Interp(P1, P2, c[e1], c[e2], Threshold)),
                  Cache |-> (key :> Len(acc.Vertices)) @@ acc.Cache,
                  vlist |-> (i :> Len(acc.Vertices)) @@ acc.vlist])

\* the edge loop of a cube over the edges lo..hi: the lower half of the
\* range, then the upper half from the state the lower half leaves
RECURSIVE EdgeLoop(_, _, _, _, _, _, _, _, _, _, _)
EdgeLoop(acc, lo, hi, edges, x, y, z, c, SampleSize, LocalVoxelSize, Threshold) ==
    IF lo = hi
    THEN IF lo \notin edges THEN acc
         ELSE EdgeStep(acc, lo, x, y, z, c, SampleSize, LocalVoxelSize, Threshold)
    ELSE Bind(EdgeLoop(acc, lo, (lo + hi) \div 2, edges, x, y, z, c, SampleSize,
                       LocalVoxelSize, Threshold),
              LAMBDA half : EdgeLoop(half, (lo + hi) \div 2 + 1, hi, edges, x, y, z, c,
                                     SampleSize, LocalVoxelSize, Threshold))

\* the triangles of one cube: (a, c, b) for each table triple (a, b, c)
RECURSIVE EmitTriangles(_, _, _)
EmitTriangles(row, i, vlist) ==
    IF i + 2 > Len(row) THEN <<>>
    ELSE <<vlist[row[i]], vlist[row[i + 2]], vlist[row[i + 1]]>>
            \o EmitTriangles(row, i + 3, vlist)

\* the body of the x/y/z loops for the cube number k = x + y*N + z*N*N
\* mesh = [Vertices, Triangles, Cache]
CubeStep(mesh, k, DensityData, SampleSize, LocalChunkSize, LocalVoxelSize, Threshold) ==
    LET x == k % LocalChunkSize
        y == (k \div LocalChunkSize) % LocalChunkSize
        z == k \div (LocalChunkSize * LocalChunkSize)
    IN  Bind([i \in 0..7 |->
                 Sample(DensityData, SampleSize, LocalChunkSize,
                        x + VertexOffsets[i][1], y + VertexOffsets[i][2],
                        z + VertexOffsets[i][3])], LAMBDA c :
        Bind(GetCubeConfiguration(c, Threshold), LAMBDA cubeIndex :
        Bind(EdgeTable(cubeIndex), LAMBDA edges :
            IF edges = {} THEN mesh
            ELSE Bind(EdgeLoop([Vertices |-> mesh.Vertices, Cache |-> mesh.Cache,
                                vlist |-> <<>>],
                               0, 11, edges, x, y, z, c, SampleSize, LocalVoxelSize,
                               Threshold),
                      LAMBDA r :
                          [Vertices |-> r.Vertices,
                           Triangles |-> mesh.Triangles
                                             \o EmitTriangles(TriTable(cubeIndex), 1, r.vlist),
                           Cache |-> r.Cache]))))

\* the x/y/z loops over the cubes lo..hi: the lower half of the range, then
\* the upper half from the mesh the lower half leaves
RECURSIVE CubeLoop(_, _, _, _, _, _, _, _)
CubeLoop(mesh, lo, hi, DensityData, SampleSize, LocalChunkSize, LocalVoxelSize, Threshold) ==
    IF lo > hi THEN mesh
    ELSE IF lo = hi
         THEN CubeStep(mesh, lo, DensityData, SampleSize, LocalChunkSize, LocalVoxelSize,
                       Threshold)
         ELSE Bind(CubeLoop(mesh, lo, (lo + hi) \div 2, DensityData, SampleSize,
                            LocalChunkSize, LocalVoxelSize, Threshold),
                   LAMBDA half : CubeLoop(half, (lo + hi) \div 2 + 1, hi, DensityData,
                                          SampleSize, LocalChunkSize, LocalVoxelSize,
                                          Threshold))

\* the normal of an output vertex is the negated, normalised density
\* gradient at its world position: it is kept as that position
GradientNormal(ActorLocation, v) == VecAdd(VecScale(ActorLocation, PosOne), v)

\* BuildMeshFromDensityFieldCached: Threshold is the CaveThreshold member
\* the function reads when it runs
BuildMeshFromDensityFieldCached(DensityData, SampleSize, LocalChunkSize, LocalVoxelSize, ActorLocation, Threshold) ==
    Bind(CubeLoop([Vertices |-> <<>>, Triangles |-> <<>>, Cache |-> <<>>],
                  0, LocalChunkSize * LocalChunkSize * LocalChunkSize - 1, DensityData,
                  SampleSize, LocalChunkSize, LocalVoxelSize, Threshold),
         LAMBDA m :
             [Vertices |-> m.Vertices,
              Triangles |-> m.Triangles,
              Normals |-> [i \in 1..Len(m.Vertices) |->
                              GradientNormal(ActorLocation, m.Vertices[i])]])

(***************************************************************************)
(* Vertex deduplication.  Vertices are positions in PosOne units, the      *)
(* merge distance is in the same units, triangle indices are 0-based.      *)
(***************************************************************************)
\* FMath::RoundToInt(v / GridSize) = floor(v / GridSize + 0.5)
RoundDiv(v, GridSize) == FloorDiv(2 * v + GridSize, 2 * GridSize)

\* FVertexKey(Position, GridSize)
VertexKey(Position, GridSize) ==
    <<RoundDiv(Position[1], GridSize), RoundDiv(Position[2], GridSize),
      RoundDiv(Position[3], GridSize)>>

\* the keys of DeduplicateVerticesAsync_Sort: InvGrid is 1/MergeDistance,
\* or 1e6 per world unit when the merge distance is not positive
QuantizedKey(V, MergeDistance) ==
    IF MergeDistance > 0 THEN VertexKey(V, MergeDistance)
    ELSE <<V[1] * (1000000 \div PosOne), V[2] * (1000000 \div PosOne),
           V[3] * (1000000 \div PosOne)>>

\* the comparison of Q.Sort: (Qx, Qy, Qz, OriginalIndex), ascending
QuantizedLess(A, B) ==
    IF A.Q[1] # B.Q[1] THEN A.Q[1] < B.Q[1]
    ELSE IF A.Q[2] # B.Q[2] THEN A.Q[2] < B.Q[2]
    ELSE IF A.Q[3] # B.Q[3] THEN A.Q[3] < B.Q[3]
    ELSE A.OriginalIndex < B.OriginalIndex

\* Q.Sort: the comparison is a total order, so the result is the one
\* ascending arrangement
RECURSIVE SortQuantized(_)
SortQuantized(S) ==
    IF S = {} THEN <<>>
    ELSE Bind(CHOOSE a \in S : \A b \in S \ {a} : QuantizedLess(a, b),
              LAMBDA m : <<m>> \o SortQuantized(S \ {m}))

\* the run loop: Q is sorted, i is the 1-based start of the next run
\* acc = [Unique, Remap]; Remap maps an original index to a unique index
RECURSIVE CollapseRuns(_, _, _, _)
CollapseRuns(Q, i, Vertices, acc) ==
    IF i > Len(Q) THEN acc
    ELSE Bind({k \in i..Len(Q) : \A j \in i..k : Q[j].Q = Q[i].Q}, LAMBDA run :
         Bind([Unique |-> Append(acc.Unique, Vertices[Q[i].OriginalIndex + 1]),
               Remap |-> [k \in {Q[j].OriginalIndex : j \in run} |-> Len(acc.Unique)]
                             @@ acc.Remap],
              LAMBDA next : CollapseRuns(Q, i + Cardinality(run), Vertices, next)))

RemapAll(Triangles, Remap) == [t \in 1..Len(Triangles) |-> Remap[Triangles[t]]]

DeduplicateVerticesAsync_Sort(Vertices, Triangles, MergeDistance) ==
    IF Len(Vertices) = 0 \/ Len(Triangles) = 0
    THEN [Vertices |-> Vertices, Triangles |-> Triangles]
    ELSE Bind(SortQuantized({[Q |-> QuantizedKey(Vertices[i + 1], MergeDistance),
                              OriginalIndex |-> i] : i \in 0..(Len(Vertices) - 1)}),
              LAMBDA Q :
         Bind(CollapseRuns(Q, 1, Vertices, [Unique |-> <<>>, Remap |-> <<>>]), LAMBDA r :
              [Vertices |-> r.Unique, Triangles |-> RemapAll(Triangles, r.Remap)]))

\* FSpatialHash::GetHash: the cell of a position, each coordinate kept to
\* its low 21 bits
GetHash(Pos, GridSize) ==
    <<FloorDiv(Pos[1], GridSize) % 2097152, FloorDiv(Pos[2], GridSize) % 2097152,
      FloorDiv(Pos[3], GridSize) % 2097152>>

\* the 27 neighbour offsets in the order of the DX, DY, DZ loops
NeighborOffsets ==
    [n \in 1..27 |-> <<((n - 1) \div 9) - 1, (((n - 1) \div 3) % 3) - 1, ((n - 1) % 3) - 1>>]

\* FSpatialHash::FindDuplicate: the bucket of a cell holds the unique
\* indices inserted with that hash, in insertion order
FindDuplicate(Pos, AllVertices, GridSize) ==
    LET Hit(n, Index) ==
            /\ GetHash(AllVertices[Index + 1], GridSize)
                   = GetHash(VecAdd(Pos, VecScale(NeighborOffsets[n], GridSize)), GridSize)
            /\ DistSquared(AllVertices[Index + 1], Pos) < GridSize * GridSize
    IN  Bind({<<n, Index>> \in (1..27) \X (0..(Len(AllVertices) - 1)) : Hit(n, Index)},
             LAMBDA Hits :
                 IF Hits = {} THEN -1
                 ELSE (CHOOSE h \in Hits :
                         \A g \in Hits : h[1] < g[1] \/ (h[1] = g[1] /\ h[2] <= g[2]))[2])

\* the vertex loop of DeduplicateVerticesAsync; acc = [Unique, Remap]
HashLoop(Vertices, i, MergeDistance, acc) ==
    Loop(LAMBDA a, k :
             Bind(FindDuplicate(Vertices[k + 1], a.Unique, MergeDistance),
                  LAMBDA DuplicateIndex :
                      IF DuplicateIndex >= 0
                      THEN [Unique |-> a.Unique,
                            Remap |-> (k :> DuplicateIndex) @@ a.Remap]
                      ELSE [Unique |-> Append(a.Unique, Vertices[k + 1]),
                            Remap |-> (k :> Len(a.Unique)) @@ a.Remap]),
         acc, i, Len(Vertices) - 1)

DeduplicateVerticesAsync(Vertices, Triangles, MergeDistance) ==
    IF Len(Vertices) = 0 \/ Len(Triangles) = 0
    THEN [Vertices |-> Vertices, Triangles |-> Triangles]
    ELSE Bind(HashLoop(Vertices, 0, MergeDistance, [Unique |-> <<>>, Remap |-> <<>>]),
              LAMBDA r : [Vertices |-> r.Unique, Triangles |-> RemapAll(Triangles, r.Remap)])

\* RemapTriangleIndices: remap, then drop the triangles with a repeated index
\* (the triangle number n is at the positions t + 3n .. t + 3n + 2)
CleanTriangles(Triangles, t) ==
    Loop(LAMBDA out, n :
             IF Triangles[t + 3 * n] # Triangles[t + 3 * n + 1]
                /\ Triangles[t + 3 * n + 1] # Triangles[t + 3 * n + 2]
                /\ Triangles[t + 3 * n] # Triangles[t + 3 * n + 2]
             THEN out \o <<Triangles[t + 3 * n], Triangles[t + 3 * n + 1],
                           Triangles[t + 3 * n + 2]>>
             ELSE out,
         <<>>, 0, ((Len(Triangles) - t + 1) \div 3) - 1)

RemapTriangleIndices(Triangles, RemapTable) ==
    Bind(RemapAll(Triangles, RemapTable), LAMBDA remapped : CleanTriangles(remapped, 1))

\* the first-occurrence loop of DeduplicateVertices over the vertex array
\* acc = [Unique, Map, Remap]
KeyLoop(Vertices, i, GridSize, acc) ==
    Loop(LAMBDA a, k :
             Bind(VertexKey(Vertices[k + 1], GridSize), LAMBDA Key :
                 IF Key \in DOMAIN a.Map
                 THEN [Unique |-> a.Unique,
                       Map |-> a.Map,
                       Remap |-> (k :> a.Map[Key]) @@ a.Remap]
                 ELSE [Unique |-> Append(a.Unique, Vertices[k + 1]),
                       Map |-> (Key :> Len(a.Unique)) @@ a.Map,
                       Remap |-> (k :> Len(a.Unique)) @@ a.Remap]),
         acc, i, Len(Vertices) - 1)

\* ACaveChunk::DeduplicateVertices on [Vertices, Triangles, Normals]
DeduplicateVertices(m, GridSize) ==
    IF Len(m.Vertices) = 0 \/ Len(m.Triangles) = 0 THEN m
    ELSE Bind(KeyLoop(m.Vertices, 0, GridSize,
                      [Unique |-> <<>>, Map |-> <<>>, Remap |-> <<>>]),
              LAMBDA r : [Vertices |-> r.Unique,
                          Triangles |-> RemapTriangleIndices(m.Triangles, r.Remap),
                          Normals |-> <<>>])

\* the first pass of DeduplicateVerticesWithNormalAveraging over the
\* triangle corners: the map gets one entry per key, in order of first use
\* (TMap keeps insertion order); Faces collects the faces whose normals
\* are accumulated into the entry.  acc = [Unique, Faces, Map]
CornerLoop(Vertices, Triangles, t, GridSize, acc) ==
    Loop(LAMBDA a, k :
             Bind(VertexKey(Vertices[Triangles[k] + 1], GridSize), LAMBDA Key :
                 IF Key \in DOMAIN a.Map
                 THEN [a EXCEPT !.Faces[a.Map[Key] + 1] = @ \cup {(k - 1) \div 3}]
                 ELSE [Unique |-> Append(a.Unique, Vertices[Triangles[k] + 1]),
                       Faces |-> Append(a.Faces, {(k - 1) \div 3}),
                       Map |-> (Key :> Len(a.Unique)) @@ a.Map]),
         acc, t, Len(Triangles))

\* ACaveChunk::DeduplicateVerticesWithNormalAveraging; an averaged normal is
\* kept as the set of faces it averages
DeduplicateVerticesWithNormalAveraging(m, GridSize) ==
    IF Len(m.Vertices) = 0 \/ Len(m.Triangles) = 0 THEN m
    ELSE Bind(CornerLoop(m.Vertices, m.Triangles, 1, GridSize,
                         [Unique |-> <<>>, Faces |-> <<>>, Map |-> <<>>]), LAMBDA r :
         Bind([i \in 0..(Len(m.Vertices) - 1) |->
                  IF VertexKey(m.Vertices[i + 1], GridSize) \in DOMAIN r.Map
                  THEN r.Map[VertexKey(m.Vertices[i + 1], GridSize)] ELSE 0],
              LAMBDA RemapTable :
                  [Vertices |-> r.Unique,
                   Triangles |-> RemapTriangleIndices(m.Triangles, RemapTable),
                   Normals |-> r.Faces]))

\* GenerateUVs: a UV is the world (X, Y) of its vertex times 0.01; it is
\* kept as that world (X, Y)
GenerateUVs(ActorLocation, Vertices) ==
    [i \in 1..Len(Vertices) |->
        <<ActorLocation[1] * PosOne + Vertices[i][1], ActorLocation[2] * PosOne + Vertices[i][2]>>]

\* CalculateNormalsFromDensity: one gradient normal per vertex
CalculateNormalsFromDensity(ActorLocation, Vertices) ==
    [i \in 1..Len(Vertices) |-> GradientNormal(ActorLocation, Vertices[i])]

(***************************************************************************)
(* ACaveChunk: one chunk actor as a record, and its operations as          *)
(* operators from a record to a record.                                    *)
(*   Writes      the buffer writes of the current generation pass, each    *)
(*               with whether MeshDataMutex was held when it was made      *)
(*   MeshSection what the renderable sink (CreateMeshSection) holds: no    *)
(*               element, or one record of the four buffers handed to it   *)
(***************************************************************************)
\* the constructor and the member initialisers of CaveChunk.h
NewChunkActor ==
    [Alive |-> TRUE,
     bIsGenerating |-> FALSE,
     ChunkCoord |-> <<0, 0, 0>>,
     VoxelSize |-> 0,
     ChunkSize |-> 0,
     ActorLocation |-> <<0, 0, 0>>,
     bHidden |-> FALSE,
     CaveThreshold |-> DensityOne \div 10,
     VertexMergeDistance |-> PosOne \div 10,
     bEnableVertexDeduplication |-> TRUE,
     bAverageNormalsOnMerge |-> TRUE,
     MinVerticesForDeduplication |-> DefaultMinVertices,
     bUseSortBasedDeduplication |-> TRUE,
     MutexHeld |-> FALSE,
     DensityField |-> <<>>,
     Vertices |-> <<>>,
     Triangles |-> <<>>,
     Normals |-> <<>>,
     UVs |-> <<>>,
     MeshSection |-> <<>>,
     Writes |-> {}]

\* AActor::Destroy: the object is gone for every weak pointer; what its
\* memory held no longer matters (the generation flag is kept: nothing
\* clears it any more)
Destroy(a) == [NewChunkActor EXCEPT !.Alive = FALSE, !.bIsGenerating = a.bIsGenerating]

\* FScopeLock on MeshDataMutex
LockMesh(a) == [a EXCEPT !.MutexHeld = TRUE]
UnlockMesh(a) == [a EXCEPT !.MutexHeld = FALSE]

\* an assignment to one of the buffers of the chunk
WriteBuffer(a, Field, Value) ==
    [a EXCEPT ![Field] = Value,
              !.Writes = @ \cup {[Field |-> Field, Locked |-> a.MutexHeld]}]

SetGenerationSettings(a, InCaveThreshold) == [a EXCEPT !.CaveThreshold = InCaveThreshold]

ClearMesh(a) ==
    [a EXCEPT !.MeshSection = <<>>, !.Vertices = <<>>, !.Triangles = <<>>,
              !.Normals = <<>>, !.UVs = <<>>, !.DensityField = <<>>]

ResetChunk(a) ==
    [a EXCEPT !.MeshSection = <<>>, !.Vertices = <<>>, !.Triangles = <<>>,
              !.Normals = <<>>, !.UVs = <<>>]

\* ChunkSize <= 0 || ChunkSize > 128
InvalidChunkSize(n) == n <= 0 \/ n > MaxValidChunkSize

\* the part of GenerateMesh and GenerateMeshAsync up to the validation:
\* the flag is set and the three members are stored before the size is
\* checked; a rejected size clears the flag again
BeginGeneration(a, ChunkCoordinate, InVoxelSize, InChunkSize) ==
    [a EXCEPT !.bIsGenerating = ~InvalidChunkSize(InChunkSize),
              !.ChunkCoord = ChunkCoordinate,
              !.VoxelSize = InVoxelSize,
              !.ChunkSize = InChunkSize]

\* ClearMesh, then SetActorLocation(FVector(ChunkCoord) * ChunkSize * VoxelSize)
PrepareGeneration(a) ==
    [ClearMesh(a) EXCEPT !.ActorLocation = VecScale(a.ChunkCoord, a.ChunkSize * a.VoxelSize),
                         !.Writes = {}]

\* CreateMeshSection(0, Vertices, Triangles, Normals, UVs, ...)
CreateMeshSection(a) ==
    [a EXCEPT !.MeshSection = <<[Vertices |-> a.Vertices, Triangles |-> a.Triangles,
                                 Normals |-> a.Normals, UVs |-> a.UVs]>>]

\* FinishMesh with the mesh section created before the UVs are generated
FinishMeshSectionFirst(a) ==
    IF Len(a.Vertices) > 0
    THEN Bind(CreateMeshSection(a), LAMBDA n :
                  [n EXCEPT !.UVs = GenerateUVs(n.ActorLocation, n.Vertices)])
    ELSE a

\* the tail shared by GenerateMesh and the game-thread task: normals if
\* their count is off, UVs, the mesh section
FinishMesh(a) ==
    IF Len(a.Vertices) > 0
    THEN Bind(IF Len(a.Normals) # Len(a.Vertices)
              THEN WriteBuffer(a, "Normals",
                               CalculateNormalsFromDensity(a.ActorLocation, a.Vertices))
              ELSE a,
              LAMBDA n :
                  CreateMeshSection([n EXCEPT !.UVs = GenerateUVs(n.ActorLocation,
                                                                  n.Vertices)]))
    ELSE a

\* GenerateDensityField, on the driver thread, in place
GenerateDensityField(a) ==
    WriteBuffer(a, "DensityField", DensityFieldAt(a.ActorLocation, a.VoxelSize, a.ChunkSize))

\* GenerateMarchingCubes: extraction, then the commit under the lock
GenerateMarchingCubes(a) ==
    Bind(BuildMeshFromDensityFieldCached(a.DensityField, a.ChunkSize + 1, a.ChunkSize,
                                         a.VoxelSize, a.ActorLocation, a.CaveThreshold),
         LAMBDA m :
             UnlockMesh(WriteBuffer(WriteBuffer(WriteBuffer(LockMesh(a),
                                                            "Vertices", m.Vertices),
                                                "Triangles", m.Triangles),
                                    "Normals", m.Normals)))

\* the deduplication step of GenerateMesh
DeduplicateSync(a) ==
    IF a.bEnableVertexDeduplication /\ Len(a.Vertices) > 0 /\ Len(a.Triangles) > 0
    THEN Bind(IF a.bAverageNormalsOnMerge
              THEN DeduplicateVerticesWithNormalAveraging(
                       [Vertices |-> a.Vertices, Triangles |-> a.Triangles,
                        Normals |-> a.Normals], a.VertexMergeDistance)
              ELSE DeduplicateVertices(
                       [Vertices |-> a.Vertices, Triangles |-> a.Triangles,
                        Normals |-> a.Normals], a.VertexMergeDistance),
              LAMBDA d :
                  [WriteBuffer(WriteBuffer(WriteBuffer(a, "Triangles", d.Triangles),
                                           "Vertices", d.Vertices),
                               "Normals", d.Normals)
                   EXCEPT !.UVs = <<>>])
    ELSE a

\* ACaveChunk::GenerateMesh, the whole call
GenerateMesh(a, ChunkCoordinate, InVoxelSize, InChunkSize) ==
    IF a.bIsGenerating THEN a
    ELSE Bind(BeginGeneration(a, ChunkCoordinate, InVoxelSize, InChunkSize), LAMBDA b :
             IF ~b.bIsGenerating THEN b
             ELSE Bind(GenerateDensityField(PrepareGeneration(b)), LAMBDA field :
                  Bind(GenerateMarchingCubes(field), LAMBDA cubes :
                  Bind(DeduplicateSync(cubes), LAMBDA deduped :
                  Bind(FinishMesh(deduped), LAMBDA done :
                      [done EXCEPT !.bIsGenerating = FALSE])))))

\* GenerateMeshAsync without the test of bIsGenerating at its start
GenerateMeshAsyncStartUnguarded(a, ChunkCoordinate, InVoxelSize, InChunkSize) ==
    Bind(BeginGeneration(a, ChunkCoordinate, InVoxelSize, InChunkSize), LAMBDA b :
        IF ~b.bIsGenerating THEN [Actor |-> b, Dispatched |-> FALSE]
        ELSE [Actor |-> PrepareGeneration(b), Dispatched |-> TRUE])

\* GenerateMeshAsync on the driver thread, up to the dispatch; Dispatched
\* says whether a task for the thread pool was created
GenerateMeshAsyncStart(a, ChunkCoordinate, InVoxelSize, InChunkSize) ==
    IF a.bIsGenerating THEN [Actor |-> a, Dispatched |-> FALSE]
    ELSE Bind(BeginGeneration(a, ChunkCoordinate, InVoxelSize, InChunkSize), LAMBDA b :
             IF ~b.bIsGenerating THEN [Actor |-> b, Dispatched |-> FALSE]
             ELSE [Actor |-> PrepareGeneration(b), Dispatched |-> TRUE])

\* the values captured by the lambda handed to the thread pool (a is the
\* actor after PrepareGeneration, id stands for WeakThis)
CapturedValues(a, id) ==
    [WeakThis |-> id,
     LocalChunkSize |-> a.ChunkSize,
     LocalVoxelSize |-> a.VoxelSize,
     LocalCaveThreshold |-> a.CaveThreshold,
     LocalMergeDistance |-> a.VertexMergeDistance,
     bLocalEnableDedup |-> a.bEnableVertexDeduplication,
     CapturedActorLocation |-> a.ActorLocation]

\* the threshold the extraction of the worker works with: the member the
\* mesh builder reads through WeakThis when it runs
WorkerThreshold(w, a) == a.CaveThreshold

\* the deduplication settings the worker works with: read through WeakThis
WorkerMinVertices(w, a) == a.MinVerticesForDeduplication
WorkerSortBased(w, a) == a.bUseSortBasedDeduplication

\* the lambda run by the thread pool: w is the captured values, a the actor
\* WeakThis points to as it is when the worker runs.  The result is the
\* capture list of the game-thread task.
WorkerResult(w, a) ==
    Bind(IF a.Alive
         THEN DensityFieldAt(w.CapturedActorLocation, w.LocalVoxelSize, w.LocalChunkSize)
         ELSE ZeroField(w.LocalChunkSize), LAMBDA TempDensity :
    Bind(IF a.Alive
         THEN BuildMeshFromDensityFieldCached(TempDensity, w.LocalChunkSize + 1,
                                              w.LocalChunkSize, w.LocalVoxelSize,
                                              w.CapturedActorLocation, WorkerThreshold(w, a))
         ELSE [Vertices |-> <<>>, Triangles |-> <<>>, Normals |-> <<>>], LAMBDA m :
    Bind(/\ w.bLocalEnableDedup
         /\ Len(m.Vertices) > 0
         /\ LET Threshold == IF a.Alive THEN WorkerMinVertices(w, a) ELSE 0
            IN  Threshold = 0 \/ Len(m.Vertices) >= Threshold, LAMBDA bDidDedup :
    Bind(IF ~bDidDedup THEN [Vertices |-> m.Vertices, Triangles |-> m.Triangles]
         ELSE IF (IF a.Alive THEN WorkerSortBased(w, a) ELSE TRUE)
              THEN DeduplicateVerticesAsync_Sort(m.Vertices, m.Triangles,
                                                 w.LocalMergeDistance)
              ELSE DeduplicateVerticesAsync(m.Vertices, m.Triangles, w.LocalMergeDistance),
         LAMBDA d :
             [WeakThis |-> w.WeakThis, TempDen |-> TempDensity, Verts |-> d.Vertices,
              Tris |-> d.Triangles, Norms |-> m.Normals, bDidDedup |-> bDidDedup]))))

\* the game-thread task of GenerateMeshAsync on a valid chunk
CommitOnGameThread(a, r) ==
    Bind(WriteBuffer(WriteBuffer(WriteBuffer(
             UnlockMesh(WriteBuffer(LockMesh(a), "DensityField", r.TempDen)),
             "Vertices", r.Verts), "Triangles", r.Tris), "Normals", r.Norms),
         LAMBDA written :
    Bind(FinishMesh(written), LAMBDA done : [done EXCEPT !.bIsGenerating = FALSE]))

(***************************************************************************)
(* UCaveWorldSubsystem                                                     *)
(***************************************************************************)
VARIABLES
    Initialized,            \* between Initialize and Deinitialize
    ChunkSize,              \* settings of the manager
    VoxelSize,
    ViewDistance,
    ChunksPerFrame,
    bUseAsyncGeneration,
    ActiveChunks,           \* TMap<FIntVector, FChunkData>, as a function
    ActiveSlots,            \* the element array of ActiveChunks: its iteration order
    ActiveFree,             \* the free slots of that array, last freed first
    ChunkPool,              \* TArray<ACaveChunk*>, ids of actors
    ChunkGenerationQueue,   \* TArray<FChunkGenerationTask>
    ChunksInQueue,          \* TSet<FIntVector>
    LastPlayerPosition,     \* TOptional<FVector>: <<>> or <<position>>
    Actors,                 \* every chunk actor ever spawned, by id
    AsyncTasks,             \* lambdas handed to the thread pool, not yet run
    GameThreadTasks,        \* lambdas queued for the game thread, in order
    WorldTime,              \* GetWorld()->GetTimeSeconds(), in driver steps
    SpawnFailures,          \* how often SpawnActor returned null
    DispatchSnapshot,       \* history: per actor, <<the actor as it was at its last dispatch>>
    DeferredEver,           \* history: the actors an eviction pass has left alone
    Last,                   \* history: the last step, what it was and what it did
    Bench                   \* the arguments and results of a function applied on its own

managerVars == <<Initialized, ChunkSize, VoxelSize, ViewDistance, ChunksPerFrame,
                 bUseAsyncGeneration, ActiveChunks, ActiveSlots, ActiveFree, ChunkPool,
                 ChunkGenerationQueue, ChunksInQueue, LastPlayerPosition, Actors, AsyncTasks,
                 GameThreadTasks, WorldTime, SpawnFailures, DispatchSnapshot, DeferredEver,
                 Last>>

vars == <<managerVars, Bench>>

\* no function is being applied on its own
NoBench == <<>>

\* CaveThreshold of the manager, handed to every actor it spawns
ManagerCaveThreshold == 0

\* float ChunkWorldSize = ChunkSize * VoxelSize
ChunkWorldSize == ChunkSize * VoxelSize

WorldToChunkCoordinate(WorldLocation) ==
    [i \in 1..3 |-> FloorDiv(WorldLocation[i], ChunkWorldSize)]

ChunkToWorldPosition(ChunkCoordinate) == VecScale(ChunkCoordinate, ChunkWorldSize)

\* the point CalculateChunkPriority and UpdateChunkLODs measure to
ChunkCenter(ChunkCoordinate) ==
    LET off == ChunkSize * VoxelSize * CenterOffsetFactor
    IN  VecAdd(ChunkToWorldPosition(ChunkCoordinate), <<off, off, off>>)

\* CalculateChunkPriority.  10000 / (Distance + 1) falls strictly with the
\* distance, so the priority is kept as the squared distance it is computed
\* from; Zero marks the 0.0 returned while no player position is set.
CalculateChunkPriority(Player, ChunkCoordinate) ==
    IF Player = <<>> THEN [Zero |-> TRUE, DistSq |-> 0]
    ELSE [Zero |-> FALSE, DistSq |-> DistSquared(Player[1], ChunkCenter(ChunkCoordinate))]

\* A.Priority > B.Priority (a set priority is positive)
PriorityGreater(A, B) == ~A.Zero /\ (B.Zero \/ A.DistSq < B.DistSq)

RECURSIVE Arrangements(_)
Arrangements(S) ==
    IF S = {} THEN {<<>>}
    ELSE UNION {{<<t>> \o r : r \in Arrangements(S \ {t})} : t \in S}

\* one arrangement for each of the given classes of equal priority: the
\* functions from the rank of a class to an arrangement of its tasks
RECURSIVE TieChoices(_, _)
TieChoices(classes, ranks) ==
    IF ranks = {} THEN {<<>>}
    ELSE Bind(CHOOSE r \in ranks : TRUE, LAMBDA r :
         Bind(TieChoices(classes, ranks \ {r}), LAMBDA rest :
              {(r :> a) @@ f : a \in Arrangements(classes[r]), f \in rest}))

\* variant: a queue left in insertion order
KeepInsertionOrder(Queue) == {Queue}

\* TArray::Sort with the predicate A.Priority > B.Priority: the sort is not
\* stable, so every arrangement in falling priority is a possible outcome
SortOutcomes(Queue) ==
    Bind(Range(Queue), LAMBDA S :
    Bind([t \in S |-> Cardinality({u \in S : PriorityGreater(u.Priority, t.Priority)})],
         LAMBDA rank :
    Bind([r \in {rank[t] : t \in S} |-> {t \in S : rank[t] = r}], LAMBDA classes :
    Bind([i \in 1..Cardinality(S) |->
             CHOOSE r \in DOMAIN classes : r < i /\ i <= r + Cardinality(classes[r])],
         LAMBDA classOf :
             {[i \in 1..Cardinality(S) |->
                  IF classOf[i] \in DOMAIN f THEN f[classOf[i]][i - classOf[i]]
                  ELSE CHOOSE t \in classes[classOf[i]] : TRUE]
              : f \in TieChoices(classes,
                                 {r \in DOMAIN classes : Cardinality(classes[r]) > 1})}))))

\* the manager's part of the state as one record, for the operators below
Manager ==
    [Active |-> ActiveChunks, Slots |-> ActiveSlots, Free |-> ActiveFree,
     Pool |-> ChunkPool, Queue |-> ChunkGenerationQueue, InQueue |-> ChunksInQueue,
     Actors |-> Actors, Async |-> AsyncTasks, Failures |-> SpawnFailures,
     Snapshot |-> DispatchSnapshot, Deferred |-> DeferredEver,
     Started |-> 0, Popped |-> <<>>, Broadcast |-> <<>>, Notified |-> {}]

\* ActiveChunks.Add / FindOrAdd of a new key: the last freed slot of the
\* element array is taken again, else the array grows
MapAdd(m, Coordinate, Data) ==
    IF m.Free # <<>>
    THEN [m EXCEPT !.Active = (Coordinate :> Data) @@ m.Active,
                   !.Slots = [@ EXCEPT ![Head(m.Free)] = <<Coordinate>>],
                   !.Free = Tail(@)]
    ELSE [m EXCEPT !.Active = (Coordinate :> Data) @@ m.Active,
                   !.Slots = Append(@, <<Coordinate>>)]

\* ActiveChunks.Remove (the map that is left is written out entry by entry)
MapRemove(m, Coordinate) ==
    Bind(CHOOSE i \in 1..Len(m.Slots) : m.Slots[i] = <<Coordinate>>, LAMBDA idx :
        [m EXCEPT !.Active = [c \in DOMAIN m.Active \ {Coordinate} |-> m.Active[c]] @@ <<>>,
                  !.Slots = [@ EXCEPT ![idx] = <<>>],
                  !.Free = <<idx>> \o @])

\* the keys of ActiveChunks in the order a range-for visits them
KeysFrom(Slots, i) ==
    Loop(LAMBDA keys, k : keys \o Slots[k], <<>>, i, Len(Slots))

ActiveKeys(m) == KeysFrom(m.Slots, 1)

\* variant: every request needs a task
AlwaysNeedsTask(m, ChunkCoordinate) == TRUE

\* the two tests of GenerateChunkAt: the coordinate is neither active nor
\* queued
NeedsTask(m, ChunkCoordinate) ==
    ChunkCoordinate \notin DOMAIN m.Active /\ ChunkCoordinate \notin m.InQueue

\* the task GenerateChunkAt builds
NewTask(Player, ChunkCoordinate) ==
    [Coordinate |-> ChunkCoordinate,
     Priority |-> CalculateChunkPriority(Player, ChunkCoordinate)]

\* GenerateChunkAt up to the sort: the task is appended unless the
\* coordinate is active or queued
EnqueueTask(m, Player, ChunkCoordinate) ==
    IF ~NeedsTask(m, ChunkCoordinate) THEN m
    ELSE [m EXCEPT !.Queue = Append(@, NewTask(Player, ChunkCoordinate)),
                   !.InQueue = @ \cup {ChunkCoordinate}]

\* GenerateChunkAt: the possible states after the call
GenerateChunkAtOutcomes(m, Player, ChunkCoordinate) ==
    Bind(EnqueueTask(m, Player, ChunkCoordinate), LAMBDA e :
        IF e = m THEN {m}
        ELSE {[e EXCEPT !.Queue = q] : q \in SortOutcomes(e.Queue)})

\* variant: a pool without a capacity
ReturnChunkToPoolUnbounded(m, id) ==
    IF m.Actors[id].bIsGenerating THEN m
    ELSE [m EXCEPT !.Actors[id] = [ClearMesh(@) EXCEPT !.bHidden = TRUE],
                   !.Pool = Append(@, id)]

\* variant: a chunk pooled as it is, without ClearMesh
ReturnChunkToPoolUncleared(m, id) ==
    IF m.Actors[id].bIsGenerating THEN m
    ELSE IF Len(m.Pool) < MaxPoolSize
         THEN [m EXCEPT !.Actors[id].bHidden = TRUE, !.Pool = Append(@, id)]
         ELSE [m EXCEPT !.Actors[id] = Destroy(@)]

\* ReturnChunkToPool
ReturnChunkToPool(m, id) ==
    IF m.Actors[id].bIsGenerating THEN m
    ELSE LET cleared == [ClearMesh(m.Actors[id]) EXCEPT !.bHidden = TRUE]
         IN  IF Len(m.Pool) < MaxPoolSize
             THEN [m EXCEPT !.Actors[id] = cleared, !.Pool = Append(@, id)]
             ELSE [m EXCEPT !.Actors[id] = Destroy(cleared)]

\* variant: an eviction pass that defers nothing
EvictionNeverDeferred(a) == FALSE

\* whether the eviction pass leaves the entry alone
EvictionDeferred(a) == a.bIsGenerating

\* the second loop of CleanupDistantChunks
RemoveChunks(m, ChunksToRemove, i) ==
    Loop(LAMBDA n, k :
             Bind(n.Active[ChunksToRemove[k]].ChunkActor, LAMBDA id :
                 IF EvictionDeferred(n.Actors[id])
                 THEN [n EXCEPT !.Deferred = @ \cup {id}]
                 ELSE Bind(ReturnChunkToPool(n, id),
                           LAMBDA returned : MapRemove(returned, ChunksToRemove[k]))),
         m, i, Len(ChunksToRemove))

CleanupDistantChunks(m, RequiredChunks) ==
    Bind(SelectSeq(ActiveKeys(m), LAMBDA c : c \notin RequiredChunks),
         LAMBDA ChunksToRemove : RemoveChunks(m, ChunksToRemove, 1))

\* CleanupAllChunks: every active and every pooled actor is destroyed
CleanupAllChunks(m) ==
    Bind({m.Active[c].ChunkActor : c \in DOMAIN m.Active} \cup Range(m.Pool), LAMBDA gone :
        [m EXCEPT !.Actors = [id \in 1..Len(m.Actors) |->
                                 IF id \in gone THEN Destroy(m.Actors[id]) ELSE m.Actors[id]],
                  !.Active = <<>>, !.Slots = <<>>, !.Free = <<>>, !.Pool = <<>>])

\* GetOrCreateChunkActor that hands out the last pooled chunk and leaves it
\* in the pool
GetOrCreateChunkActorKeepingPool(m) ==
    IF Len(m.Pool) > 0
    THEN {[State |-> [m EXCEPT !.Actors[m.Pool[Len(m.Pool)]] =
                                   [ResetChunk(@) EXCEPT !.bHidden = FALSE]],
           ChunkActor |-> m.Pool[Len(m.Pool)]]}
    ELSE {[State |-> [m EXCEPT !.Actors = Append(@, SetGenerationSettings(NewChunkActor,
                                                                         ManagerCaveThreshold)),
                               !.Snapshot = Append(@, <<>>)],
           ChunkActor |-> Len(m.Actors) + 1]}

\* GetOrCreateChunkActor: the possible outcomes, each the state after the
\* call and the actor returned (0 for nullptr).  SpawnActor may return null.
GetOrCreateChunkActor(m) ==
    IF Len(m.Pool) > 0
    THEN LET id == m.Pool[Len(m.Pool)]
         IN  {[State |-> [m EXCEPT !.Pool = SubSeq(@, 1, Len(@) - 1),
                                   !.Actors[id] = [ResetChunk(@) EXCEPT !.bHidden = FALSE]],
               ChunkActor |-> id]}
    ELSE {[State |-> [m EXCEPT !.Actors = Append(@, SetGenerationSettings(NewChunkActor,
                                                                         ManagerCaveThreshold)),
                               !.Snapshot = Append(@, <<>>)],
           ChunkActor |-> Len(m.Actors) + 1]}
         \cup (IF m.Failures < MaxSpawnFailures
               THEN {[State |-> [m EXCEPT !.Failures = @ + 1], ChunkActor |-> 0]}
               ELSE {})

\* OnChunkGenerated: the entry is registered and the delegate broadcast
OnChunkGenerated(m, Coordinate, id, Now) ==
    Bind(MapAdd(m, Coordinate,
                [Coordinate |-> Coordinate, bIsGenerated |-> TRUE, bNeedsRebuild |-> FALSE,
                 ChunkActor |-> id, GenerationTime |-> Now, CurrentLOD |-> 0]),
         LAMBDA added :
             [added EXCEPT !.Broadcast = Append(@, [Coordinate |-> Coordinate,
                                                    bIsGenerating |-> m.Actors[id].bIsGenerating])])

\* GenerateMeshAsync or GenerateMesh called on actor id
RequestGeneration(m, Coordinate, id, Async, InVoxelSize, InChunkSize) ==
    IF Async
    THEN Bind(GenerateMeshAsyncStart(m.Actors[id], Coordinate, InVoxelSize, InChunkSize),
              LAMBDA g :
                  [m EXCEPT !.Actors[id] = g.Actor,
                            !.Async = IF g.Dispatched
                                      THEN @ \cup {CapturedValues(g.Actor, id)} ELSE @,
                            !.Snapshot[id] = IF g.Dispatched THEN <<g.Actor>> ELSE @])
    ELSE Bind(GenerateMesh(m.Actors[id], Coordinate, InVoxelSize, InChunkSize),
              LAMBDA generated : [m EXCEPT !.Actors[id] = generated])

\* the generation call of ProcessGenerationQueue on the actor it got:
\* SetActorLocation, then the request with the settings of the manager
StartGeneration(m, Coordinate, id, Async) ==
    RequestGeneration([m EXCEPT !.Actors[id].ActorLocation = ChunkToWorldPosition(Coordinate)],
                      Coordinate, id, Async, VoxelSize, ChunkSize)

\* a loop condition that never lets a pass start
BudgetNeverLeft(ChunksProcessed, PerFrame) == FALSE

\* variant: a budget test that lets one more pass through
BudgetLeftInclusive(ChunksProcessed, PerFrame) == ChunksProcessed <= PerFrame

\* the loop condition of ProcessGenerationQueue
BudgetLeft(ChunksProcessed, PerFrame) == ChunksProcessed < PerFrame

\* one pass of the loop body: the task at the head is taken; the possible
\* states after the pass
ProcessTask(m, Async, Now) ==
    Bind([m EXCEPT !.Queue = Tail(@), !.InQueue = @ \ {m.Queue[1].Coordinate},
                   !.Popped = Append(@, [Task |-> m.Queue[1], Remaining |-> Tail(m.Queue)])],
         LAMBDA popped :
             IF m.Queue[1].Coordinate \in DOMAIN m.Active THEN {popped}
             ELSE {IF o.ChunkActor = 0 THEN o.State
                   ELSE Bind(StartGeneration(o.State, m.Queue[1].Coordinate, o.ChunkActor,
                                             Async), LAMBDA started :
                        Bind(OnChunkGenerated(started, m.Queue[1].Coordinate, o.ChunkActor,
                                              Now), LAMBDA registered :
                             [registered EXCEPT !.Started = @ + 1]))
                   : o \in GetOrCreateChunkActor(popped)})

\* one pass of the loop of ProcessGenerationQueue from each state of S; a
\* state whose loop condition is false has left the loop and stays
ProcessPass(S, PerFrame, Async, Now) ==
    UNION {IF Len(n.Queue) > 0 /\ BudgetLeft(n.Started, PerFrame)
           THEN ProcessTask(n, Async, Now)
           ELSE {n} : n \in S}

\* Passes passes of the loop from each state of S: the first half of the
\* passes, then the rest from the states the first half leaves
RECURSIVE ProcessPasses(_, _, _, _, _)
ProcessPasses(S, Passes, PerFrame, Async, Now) ==
    IF Passes = 0 THEN S
    ELSE IF Passes = 1 THEN ProcessPass(S, PerFrame, Async, Now)
    ELSE Bind(ProcessPasses(S, Passes \div 2, PerFrame, Async, Now), LAMBDA half :
              ProcessPasses(half, Passes - Passes \div 2, PerFrame, Async, Now))

\* ProcessGenerationQueue: the possible states after the call.  Started
\* is ChunksProcessed: both count the passes that reached the generation.
\* Every pass takes one task, so the loop ends within Len(Queue) passes.
ProcessGenerationQueue(m, PerFrame, Async, Now) ==
    ProcessPasses({m}, Len(m.Queue), PerFrame, Async, Now)

\* the level of detail UpdateChunkLODs picks for a squared distance
TargetLOD(DistSq) ==
    IF DistSq > 20000 * 20000 THEN 3
    ELSE IF DistSq > 10000 * 10000 THEN 2
    ELSE IF DistSq > 5000 * 5000 THEN 1
    ELSE 0

\* variant: every chunk is notified of its level on every tick
UpdateChunkLODsEveryTick(m, Player) ==
    IF Player = <<>> THEN m
    ELSE Bind([c \in DOMAIN m.Active |->
                  TargetLOD(DistSquared(Player[1], ChunkCenter(c)))], LAMBDA Target :
             [m EXCEPT !.Active = [c \in DOMAIN m.Active |->
                                      [m.Active[c] EXCEPT !.CurrentLOD = Target[c]]],
                       !.Notified = {[Coordinate |-> c, LODLevel |-> Target[c]] :
                                        c \in DOMAIN m.Active}])

\* UpdateChunkLODs: Notified collects the SetLODLevel calls
UpdateChunkLODs(m, Player) ==
    IF Player = <<>> THEN m
    ELSE Bind([c \in DOMAIN m.Active |->
                  TargetLOD(DistSquared(Player[1], ChunkCenter(c)))], LAMBDA Target :
         Bind({c \in DOMAIN m.Active : m.Active[c].CurrentLOD # Target[c]}, LAMBDA Changed :
             [m EXCEPT !.Active = [c \in DOMAIN m.Active |->
                                      IF c \in Changed
                                      THEN [m.Active[c] EXCEPT !.CurrentLOD = Target[c]]
                                      ELSE m.Active[c]],
                       !.Notified = {[Coordinate |-> c, LODLevel |-> Target[c]] :
                                        c \in Changed}]))

\* variant: a view sphere without its surface
WithinViewDistanceStrict(X, Y, Z, View) == X * X + Y * Y + Z * Z < View * View

\* Distance <= ViewDistance for the offset (X, Y, Z)
WithinViewDistance(X, Y, Z, View) == X * X + Y * Y + Z * Z <= View * View

\* the offsets the three loops of UpdateAroundPlayer visit, in loop order
LoopOffsets(View) ==
    LET side == 2 * View + 1
        depth == 2 * VerticalRange + 1
    IN  IF View < 0 THEN <<>>
        ELSE [k \in 1..(side * side * depth) |->
                 << ((k - 1) \div (side * depth)) - View,
                    (((k - 1) \div depth) % side) - View,
                    ((k - 1) % depth) - VerticalRange >>]

\* RequiredChunks, in the order the coordinates are added
RequiredSequence(PlayerChunk, View) ==
    LET within == SelectSeq(LoopOffsets(View),
                            LAMBDA o : WithinViewDistance(o[1], o[2], o[3], View))
    IN  [k \in 1..Len(within) |-> VecAdd(PlayerChunk, within[k])]

\* the GenerateChunkAt calls of the loops of UpdateAroundPlayer up to their
\* sorts: the coordinates of the loops are distinct, so a call adds a task
\* exactly if its coordinate was neither active nor queued before the loops
EnqueueAll(m, Player, Coords) ==
    Bind(SelectSeq(Coords, LAMBDA c : c \notin DOMAIN m.Active /\ NeedsTask(m, c)),
         LAMBDA added :
             [m EXCEPT !.Queue = @ \o [k \in 1..Len(added) |-> NewTask(Player, added[k])],
                       !.InQueue = @ \cup Range(added)])

\* UpdateAroundPlayer after LastPlayerPosition is set: the possible states.
\* Every GenerateChunkAt that adds a task sorts the queue; the sorts being
\* unstable, what the last of them leaves is any arrangement in falling
\* priority.
UpdateAroundPlayerOutcomes(m, PlayerLocation, View) ==
    Bind(RequiredSequence(WorldToChunkCoordinate(PlayerLocation), View), LAMBDA Required :
    Bind(EnqueueAll(m, <<PlayerLocation>>, Required), LAMBDA queued :
    Bind(Range(Required), LAMBDA RequiredChunks :
        {CleanupDistantChunks(n, RequiredChunks) :
            n \in IF queued.Queue = m.Queue THEN {queued}
                  ELSE {[queued EXCEPT !.Queue = q] : q \in SortOutcomes(queued.Queue)}})))

(***************************************************************************)
(* The steps of the manager, of the thread pool and of the game thread     *)
(***************************************************************************)
\* the positions the viewer reports and the coordinates asked for directly
PlayerPositions == {<<0, 1, 2>>, <<9, 1, 2>>}
RequestCoords == {<<0, 0, 1>>, <<4, 0, 0>>}

NoStep == [Op |-> "Initialize", Started |-> 0, Popped |-> <<>>, Broadcast |-> <<>>,
           Notified |-> {}, Required |-> {}, Coordinate |-> <<>>, InChunkSize |-> 0]

\* the state after the constructor and Initialize, for given settings
InitManager(Size, Voxel, View, PerFrame, Async) ==
    /\ Initialized = TRUE
    /\ ChunkSize = Size
    /\ VoxelSize = Voxel
    /\ ViewDistance = View
    /\ ChunksPerFrame = PerFrame
    /\ bUseAsyncGeneration = Async
    /\ ActiveChunks = <<>>
    /\ ActiveSlots = <<>>
    /\ ActiveFree = <<>>
    /\ ChunkPool = <<>>
    /\ ChunkGenerationQueue = <<>>
    /\ ChunksInQueue = {}
    /\ LastPlayerPosition = <<>>
    /\ Actors = <<>>
    /\ AsyncTasks = {}
    /\ GameThreadTasks = <<>>
    /\ WorldTime = 0
    /\ SpawnFailures = 0
    /\ DispatchSnapshot = <<>>
    /\ DeferredEver = {}
    /\ Last = NoStep
    /\ Bench = NoBench

\* the manager with a view distance of one chunk, every budget up to the
\* bounds, both generation modes
Init ==
    \E PerFrame \in -1..MaxChunksPerFrame, Async \in BOOLEAN :
        /\ Async => PerFrame <= MaxAsyncChunksPerFrame
        /\ InitManager(ModelChunkSize, ModelVoxelSize, 1, PerFrame, Async)

\* what a call into the manager on the game thread that ends in state m
\* leaves behind
DriverEffects(m, Player, Op, Required, Coordinate) ==
    /\ ActiveChunks' = m.Active
    /\ ActiveSlots' = m.Slots
    /\ ActiveFree' = m.Free
    /\ ChunkPool' = m.Pool
    /\ ChunkGenerationQueue' = m.Queue
    /\ ChunksInQueue' = m.InQueue
    /\ Actors' = m.Actors
    /\ AsyncTasks' = m.Async
    /\ SpawnFailures' = m.Failures
    /\ DispatchSnapshot' = m.Snapshot
    /\ DeferredEver' = m.Deferred
    /\ LastPlayerPosition' = Player
    /\ Last' = [Op |-> Op, Started |-> m.Started, Popped |-> m.Popped,
                Broadcast |-> m.Broadcast, Notified |-> m.Notified, Required |-> Required,
                Coordinate |-> Coordinate,
                InChunkSize |-> ChunkSize]
    /\ UNCHANGED <<ChunkSize, VoxelSize, ViewDistance, ChunksPerFrame, bUseAsyncGeneration,
                   GameThreadTasks, Bench>>

\* a call into the manager on the game thread ends in state m; the world
\* time has moved on
DriverStep(m, Player, Op, Required, Coordinate) ==
    /\ DriverEffects(m, Player, Op, Required, Coordinate)
    /\ WorldTime' = WorldTime + 1

DriverReady == Initialized /\ WorldTime < MaxTime

GenerateChunkAt(ChunkCoordinate) ==
    /\ DriverReady
    /\ \E m \in GenerateChunkAtOutcomes(Manager, LastPlayerPosition, ChunkCoordinate) :
           DriverStep(m, LastPlayerPosition, "GenerateChunkAt", {}, ChunkCoordinate)
    /\ UNCHANGED Initialized

UpdateAroundPlayer(PlayerLocation) ==
    /\ DriverReady
    /\ \E m \in UpdateAroundPlayerOutcomes(Manager, PlayerLocation, ViewDistance) :
           DriverStep(m, <<PlayerLocation>>, "UpdateAroundPlayer",
                      Range(RequiredSequence(WorldToChunkCoordinate(PlayerLocation),
                                             ViewDistance)),
                      <<>>)
    /\ UNCHANGED Initialized

\* the timer callback: ProcessGenerationQueue, then UpdateChunkLODs
TickUpdate ==
    /\ DriverReady
    /\ \E m \in ProcessGenerationQueue(Manager, ChunksPerFrame, bUseAsyncGeneration, WorldTime) :
           \E lod \in {UpdateChunkLODs(m, LastPlayerPosition)} :
               DriverStep(lod, LastPlayerPosition, "TickUpdate", {}, <<>>)
    /\ UNCHANGED Initialized

RegenerateAllChunks ==
    /\ DriverReady
    /\ \E cleared \in {[CleanupAllChunks(Manager) EXCEPT !.Queue = <<>>, !.InQueue = {}]} :
           IF LastPlayerPosition = <<>>
           THEN DriverStep(cleared, LastPlayerPosition, "RegenerateAllChunks", {}, <<>>)
           ELSE \E m \in UpdateAroundPlayerOutcomes(cleared, LastPlayerPosition[1],
                                                    ViewDistance) :
                    DriverStep(m, LastPlayerPosition, "RegenerateAllChunks",
                               Range(RequiredSequence(
                                   WorldToChunkCoordinate(LastPlayerPosition[1]),
                                   ViewDistance)),
                               <<>>)
    /\ UNCHANGED Initialized

Deinitialize ==
    /\ DriverReady
    /\ \E cleared \in {[CleanupAllChunks(Manager) EXCEPT !.Queue = <<>>, !.InQueue = {}]} :
           DriverStep(cleared, LastPlayerPosition, "Deinitialize", {}, <<>>)
    /\ Initialized' = FALSE

\* a thread of the pool runs one dispatched lambda to its end and queues
\* the game-thread task with the buffers it produced
WorkerRun(w) ==
    /\ w \in AsyncTasks
    /\ AsyncTasks' = AsyncTasks \ {w}
    /\ GameThreadTasks' = Append(GameThreadTasks, WorkerResult(w, Actors[w.WeakThis]))
    /\ Last' = [NoStep EXCEPT !.Op = "WorkerRun"]
    /\ UNCHANGED <<Initialized, ChunkSize, VoxelSize, ViewDistance, ChunksPerFrame,
                   bUseAsyncGeneration, ActiveChunks, ActiveSlots, ActiveFree, ChunkPool,
                   ChunkGenerationQueue, ChunksInQueue, LastPlayerPosition, Actors, WorldTime,
                   SpawnFailures, DispatchSnapshot, DeferredEver, Bench>>

\* a completion that takes every chunk for valid
CompletionAlwaysValid(a) == TRUE

\* WeakThis.IsValid() at the start of the game-thread task
CompletionValid(a) == a.Alive

\* the game thread runs the oldest queued task: nothing if the chunk is
\* gone, else the commit
GameThreadRun ==
    /\ GameThreadTasks # <<>>
    /\ \E r \in {Head(GameThreadTasks)} :
           Actors' = IF CompletionValid(Actors[r.WeakThis])
                     THEN [Actors EXCEPT ![r.WeakThis] = CommitOnGameThread(Actors[r.WeakThis], r)]
                     ELSE Actors
    /\ GameThreadTasks' = Tail(GameThreadTasks)
    /\ Last' = [NoStep EXCEPT !.Op = "GameThreadRun"]
    /\ UNCHANGED <<Initialized, ChunkSize, VoxelSize, ViewDistance, ChunksPerFrame,
                   bUseAsyncGeneration, ActiveChunks, ActiveSlots, ActiveFree, ChunkPool,
                   ChunkGenerationQueue, ChunksInQueue, LastPlayerPosition, AsyncTasks,
                   WorldTime, SpawnFailures, DispatchSnapshot, DeferredEver, Bench>>

Next ==
    \/ \E c \in RequestCoords : GenerateChunkAt(c)
    \/ \E p \in PlayerPositions : UpdateAroundPlayer(p)
    \/ TickUpdate
    \/ RegenerateAllChunks
    \/ Deinitialize
    \/ \E w \in AsyncTasks : WorkerRun(w)
    \/ GameThreadRun

Spec == Init /\ [][Next]_vars
(***************************************************************************)
(* The manager with the default voxel size and view distances up to        *)
(* MaxViewDistance, synchronous generation, one chunk per tick             *)
(***************************************************************************)
ViewPositions == {<<63, 97, 57>>, <<260, 183, 348>>}
ViewRequestCoords == {<<0, 0, 3>>}

InitView ==
    \E View \in 0..MaxViewDistance :
        InitManager(ModelChunkSize, DefaultVoxelSize, View, 1, FALSE)

NextView ==
    \/ \E c \in ViewRequestCoords : GenerateChunkAt(c)
    \/ \E p \in ViewPositions : UpdateAroundPlayer(p)
    \/ TickUpdate

SpecView == InitView /\ [][NextView]_vars

(***************************************************************************)
(* The manager with a budget that fills the pool: the viewer asks for more *)
(* chunks than the pool holds, two ticks generate them, and the viewer     *)
(* moves out of reach of all of them                                       *)
(***************************************************************************)
PoolPositions == {<<63, 97, 57>>, <<1260, 183, 348>>}

\* as after InitManager, in a world where SpawnActor does not fail
InitPool ==
    /\ Initialized = TRUE
    /\ ChunkSize = ModelChunkSize
    /\ VoxelSize = DefaultVoxelSize
    /\ ViewDistance = MaxViewDistance
    /\ ChunksPerFrame = PoolChunksPerFrame
    /\ bUseAsyncGeneration = FALSE
    /\ ActiveChunks = <<>>
    /\ ActiveSlots = <<>>
    /\ ActiveFree = <<>>
    /\ ChunkPool = <<>>
    /\ ChunkGenerationQueue = <<>>
    /\ ChunksInQueue = {}
    /\ LastPlayerPosition = <<>>
    /\ Actors = <<>>
    /\ AsyncTasks = {}
    /\ GameThreadTasks = <<>>
    /\ WorldTime = 0
    /\ SpawnFailures = MaxSpawnFailures
    /\ DispatchSnapshot = <<>>
    /\ DeferredEver = {}
    /\ Last = NoStep
    /\ Bench = NoBench

NextPool ==
    \/ \E c \in ViewRequestCoords : GenerateChunkAt(c)
    \/ \E p \in PoolPositions : UpdateAroundPlayer(p)
    \/ TickUpdate

SpecPool == InitPool /\ [][NextPool]_vars

(***************************************************************************)
(* The manager under its timer: the timer set by Initialize calls          *)
(* TickUpdate every 100 ms for as long as the subsystem lives, the thread  *)
(* pool runs every lambda handed to it and the game thread every task      *)
(* queued for it.  The calls from outside stop after MaxTime steps; beyond *)
(* MaxTime only the parity of the world time is kept.                      *)
(***************************************************************************)
\* as after InitManager with asynchronous generation and a view distance
\* of no chunk but the viewer's own, in a world where SpawnActor does not
\* fail
InitTimer ==
    /\ Initialized = TRUE
    /\ ChunkSize = ModelChunkSize
    /\ VoxelSize = ModelVoxelSize
    /\ ViewDistance = 0
    /\ ChunksPerFrame \in 1..MaxAsyncChunksPerFrame
    /\ bUseAsyncGeneration = TRUE
    /\ ActiveChunks = <<>>
    /\ ActiveSlots = <<>>
    /\ ActiveFree = <<>>
    /\ ChunkPool = <<>>
    /\ ChunkGenerationQueue = <<>>
    /\ ChunksInQueue = {}
    /\ LastPlayerPosition = <<>>
    /\ Actors = <<>>
    /\ AsyncTasks = {}
    /\ GameThreadTasks = <<>>
    /\ WorldTime = 0
    /\ SpawnFailures = MaxSpawnFailures
    /\ DispatchSnapshot = <<>>
    /\ DeferredEver = {}
    /\ Last = NoStep
    /\ Bench = NoBench

TimerTick ==
    /\ Initialized
    /\ \E m \in ProcessGenerationQueue(Manager, ChunksPerFrame, bUseAsyncGeneration, WorldTime) :
           \E lod \in {UpdateChunkLODs(m, LastPlayerPosition)} :
               DriverEffects(lod, LastPlayerPosition, "TickUpdate", {}, <<>>)
    /\ WorldTime' = IF WorldTime < MaxTime THEN WorldTime + 1
                    ELSE MaxTime + ((WorldTime - MaxTime + 1) % 2)
    /\ UNCHANGED Initialized

WorkerRuns == \E w \in AsyncTasks : WorkerRun(w)

TimerCoords == {<<4, 0, 0>>}
TimerPositions == {<<0, 1, 2>>, <<9, 1, 2>>}

NextTimer ==
    \/ \E c \in TimerCoords : GenerateChunkAt(c)
    \/ \E p \in TimerPositions : UpdateAroundPlayer(p)
    \/ TimerTick
    \/ WorkerRuns
    \/ GameThreadRun

SpecTimer ==
    /\ InitTimer
    /\ [][NextTimer]_vars
    /\ WF_vars(TimerTick)
    /\ WF_vars(WorkerRuns)
    /\ WF_vars(GameThreadRun)

(***************************************************************************)
(* The manager with its ChunkSize setting above what a chunk accepts       *)
(***************************************************************************)
InitReject ==
    \E PerFrame \in 0..MaxChunksPerFrame, Async \in BOOLEAN :
        InitManager(MaxValidChunkSize + 1, ModelVoxelSize, 1, PerFrame, Async)

NextReject ==
    \/ \E c \in RequestCoords : GenerateChunkAt(c)
    \/ \E p \in PlayerPositions : UpdateAroundPlayer(p)
    \/ TickUpdate

SpecReject == InitReject /\ [][NextReject]_vars

(***************************************************************************)
(* One chunk actor driven directly: its owner positions it and calls its   *)
(* generation, and changes its settings while passes are in flight         *)
(***************************************************************************)
ChunkCoords == {<<0, 0, 0>>, <<1, 1, 1>>}
ThresholdSettings == {0, DensityOne \div 10, DensityOne}
MinVerticesSettings == {0, DefaultMinVertices}

InitChunk ==
    /\ Initialized = TRUE
    /\ ChunkSize = ModelChunkSize
    /\ VoxelSize = ModelVoxelSize
    /\ ViewDistance = 0
    /\ ChunksPerFrame = 0
    /\ bUseAsyncGeneration \in BOOLEAN
    /\ ActiveChunks = <<>>
    /\ ActiveSlots = <<>>
    /\ ActiveFree = <<>>
    /\ ChunkPool = <<>>
    /\ ChunkGenerationQueue = <<>>
    /\ ChunksInQueue = {}
    /\ LastPlayerPosition = <<>>
    /\ Actors = <<SetGenerationSettings(NewChunkActor, ManagerCaveThreshold)>>
    /\ AsyncTasks = {}
    /\ GameThreadTasks = <<>>
    /\ WorldTime = 0
    /\ SpawnFailures = 0
    /\ DispatchSnapshot = << <<>> >>
    /\ DeferredEver = {}
    /\ Last = NoStep
    /\ Bench = NoBench

\* SetActorLocation, then GenerateMeshAsync or GenerateMesh on the chunk
ChunkGenerate(ChunkCoordinate) ==
    /\ DriverReady
    /\ \E m \in {StartGeneration(Manager, ChunkCoordinate, 1, bUseAsyncGeneration)} :
           DriverStep(m, LastPlayerPosition, "GenerateMesh", {}, ChunkCoordinate)
    /\ UNCHANGED Initialized

\* a step that only changes the chunk actor
ChunkSettingsStep(a, Op) ==
    /\ Actors' = [Actors EXCEPT ![1] = a]
    /\ Last' = [NoStep EXCEPT !.Op = Op]
    /\ UNCHANGED <<Initialized, ChunkSize, VoxelSize, ViewDistance, ChunksPerFrame,
                   bUseAsyncGeneration, ActiveChunks, ActiveSlots, ActiveFree, ChunkPool,
                   ChunkGenerationQueue, ChunksInQueue, LastPlayerPosition, AsyncTasks,
                   GameThreadTasks, WorldTime, SpawnFailures, DispatchSnapshot, DeferredEver, Bench>>

\* ACaveChunk::SetGenerationSettings called by the owner of the chunk
ChunkSetGenerationSettings(InCaveThreshold) ==
    /\ Actors[1].CaveThreshold # InCaveThreshold
    /\ ChunkSettingsStep(SetGenerationSettings(Actors[1], InCaveThreshold),
                         "SetGenerationSettings")

\* the deduplication properties of the chunk are set (they are
\* BlueprintReadWrite)
ChunkSetDeduplication(MinVertices, bSortBased) ==
    /\ <<Actors[1].MinVerticesForDeduplication, Actors[1].bUseSortBasedDeduplication>>
           # <<MinVertices, bSortBased>>
    /\ ChunkSettingsStep([Actors[1] EXCEPT !.MinVerticesForDeduplication = MinVertices,
                                           !.bUseSortBasedDeduplication = bSortBased],
                         "SetDeduplication")

NextChunk ==
    \/ \E c \in ChunkCoords : ChunkGenerate(c)
    \/ \E t \in ThresholdSettings : ChunkSetGenerationSettings(t)
    \/ \E n \in MinVerticesSettings, b \in BOOLEAN : ChunkSetDeduplication(n, b)
    \/ \E w \in AsyncTasks : WorkerRun(w)
    \/ GameThreadRun

SpecChunk == InitChunk /\ [][NextChunk]_vars

(***************************************************************************)
(* One chunk actor asked for chunks of several sizes, valid and not, by    *)
(* either generation call, and reset and cleared in between                *)
(***************************************************************************)
RequestSizes == {1, ModelChunkSize, 0, MaxValidChunkSize + 1}

\* GenerateMesh or GenerateMeshAsync with a chunk size of the caller
ChunkRequest(ChunkCoordinate, InChunkSize, Async) ==
    /\ DriverReady
    /\ \E m \in {RequestGeneration(Manager, ChunkCoordinate, 1, Async, VoxelSize, InChunkSize)} :
           /\ Actors' = m.Actors
           /\ AsyncTasks' = m.Async
           /\ DispatchSnapshot' = m.Snapshot
    /\ WorldTime' = WorldTime + 1
    /\ Last' = [NoStep EXCEPT !.Op = "GenerateMesh", !.Coordinate = ChunkCoordinate,
                              !.InChunkSize = InChunkSize]
    /\ UNCHANGED <<Initialized, ChunkSize, VoxelSize, ViewDistance, ChunksPerFrame,
                   bUseAsyncGeneration, ActiveChunks, ActiveSlots, ActiveFree, ChunkPool,
                   ChunkGenerationQueue, ChunksInQueue, LastPlayerPosition, GameThreadTasks,
                   SpawnFailures, DeferredEver, Bench>>

\* ACaveChunk::ResetChunk called by the owner of the chunk
ChunkResetChunk ==
    /\ ResetChunk(Actors[1]) # Actors[1]
    /\ ChunkSettingsStep(ResetChunk(Actors[1]), "ResetChunk")

\* ACaveChunk::ClearMesh called by the owner of the chunk
ChunkClearMesh ==
    /\ ClearMesh(Actors[1]) # Actors[1]
    /\ ChunkSettingsStep(ClearMesh(Actors[1]), "ClearMesh")

NextRequests ==
    \/ \E c \in ChunkCoords, n \in RequestSizes, Async \in BOOLEAN : ChunkRequest(c, n, Async)
    \/ ChunkResetChunk
    \/ ChunkClearMesh
    \/ \E w \in AsyncTasks : WorkerRun(w)
    \/ GameThreadRun

SpecRequests == InitChunk /\ [][NextRequests]_vars

(***************************************************************************)
(* The deduplication routines applied on their own: to a triangle soup     *)
(* over a few points, and again to what they returned                      *)
(***************************************************************************)
MaxBenchTriangles == 2
MaxBenchPasses == 2
BenchPoints == {<<0, 0, 0>>, <<4, 0, 0>>, <<6, 0, 0>>, <<0, 20, 0>>}
BenchMergeDistances == {PosOne \div 10, PosOne}

\* the manager before Initialize
ManagerIdle ==
    /\ Initialized = FALSE
    /\ ChunkSize = ModelChunkSize
    /\ VoxelSize = ModelVoxelSize
    /\ ViewDistance = 0
    /\ ChunksPerFrame = 0
    /\ bUseAsyncGeneration = FALSE
    /\ ActiveChunks = <<>>
    /\ ActiveSlots = <<>>
    /\ ActiveFree = <<>>
    /\ ChunkPool = <<>>
    /\ ChunkGenerationQueue = <<>>
    /\ ChunksInQueue = {}
    /\ LastPlayerPosition = <<>>
    /\ Actors = <<>>
    /\ AsyncTasks = {}
    /\ GameThreadTasks = <<>>
    /\ WorldTime = 0
    /\ SpawnFailures = 0
    /\ DispatchSnapshot = <<>>
    /\ DeferredEver = {}
    /\ Last = NoStep

\* a soup of n triangles: three vertices of its own for every triangle
InitDedup ==
    /\ ManagerIdle
    /\ \E n \in 1..MaxBenchTriangles, MergeDistance \in BenchMergeDistances :
           \E Vertices \in [1..(3 * n) -> BenchPoints] :
               Bench = [Vertices |-> Vertices,
                        Triangles |-> [t \in 1..(3 * n) |-> t - 1],
                        Normals |-> <<>>,
                        MergeDistance |-> MergeDistance,
                        Routine |-> "",
                        Passes |-> 0,
                        Before |-> [Vertices |-> 0, Triangles |-> 0]]

\* one of the four routines on the arrays of m; the two static routines
\* of the worker leave the normals alone
ApplyDeduplication(Routine, m) ==
    CASE Routine = "DeduplicateVerticesAsync" ->
             Bind(DeduplicateVerticesAsync(m.Vertices, m.Triangles, m.MergeDistance),
                  LAMBDA d : [Vertices |-> d.Vertices, Triangles |-> d.Triangles,
                              Normals |-> m.Normals])
      [] Routine = "DeduplicateVerticesAsync_Sort" ->
             Bind(DeduplicateVerticesAsync_Sort(m.Vertices, m.Triangles, m.MergeDistance),
                  LAMBDA d : [Vertices |-> d.Vertices, Triangles |-> d.Triangles,
                              Normals |-> m.Normals])
      [] Routine = "DeduplicateVertices" ->
             DeduplicateVertices([Vertices |-> m.Vertices, Triangles |-> m.Triangles,
                                  Normals |-> m.Normals], m.MergeDistance)
      [] Routine = "DeduplicateVerticesWithNormalAveraging" ->
             DeduplicateVerticesWithNormalAveraging(
                 [Vertices |-> m.Vertices, Triangles |-> m.Triangles,
                  Normals |-> m.Normals], m.MergeDistance)

\* only one routine is applied to a mesh, at most MaxBenchPasses times
BenchReady(Routine) ==
    /\ Bench.Passes < MaxBenchPasses
    /\ Bench.Routine \in {"", Routine}

\* the routine is applied to the arrays as they are, with the merge
\* distance of the first application
BenchDeduplicate(Routine) ==
    Bind(ApplyDeduplication(Routine, Bench), LAMBDA d :
        [Vertices |-> d.Vertices,
         Triangles |-> d.Triangles,
         Normals |-> d.Normals,
         MergeDistance |-> Bench.MergeDistance,
         Routine |-> Routine,
         Passes |-> Bench.Passes + 1,
         Before |-> [Vertices |-> Len(Bench.Vertices),
                     Triangles |-> Len(Bench.Triangles)]])

RunDeduplicateVerticesAsync ==
    /\ BenchReady("DeduplicateVerticesAsync")
    /\ Bench' = BenchDeduplicate("DeduplicateVerticesAsync")
    /\ UNCHANGED managerVars

RunDeduplicateVerticesAsync_Sort ==
    /\ BenchReady("DeduplicateVerticesAsync_Sort")
    /\ Bench' = BenchDeduplicate("DeduplicateVerticesAsync_Sort")
    /\ UNCHANGED managerVars

RunDeduplicateVertices ==
    /\ BenchReady("DeduplicateVertices")
    /\ Bench' = BenchDeduplicate("DeduplicateVertices")
    /\ UNCHANGED managerVars

RunDeduplicateVerticesWithNormalAveraging ==
    /\ BenchReady("DeduplicateVerticesWithNormalAveraging")
    /\ Bench' = BenchDeduplicate("DeduplicateVerticesWithNormalAveraging")
    /\ UNCHANGED managerVars

NextDedup ==
    \/ RunDeduplicateVerticesAsync
    \/ RunDeduplicateVerticesAsync_Sort
    \/ RunDeduplicateVertices
    \/ RunDeduplicateVerticesWithNormalAveraging

SpecDedup == InitDedup /\ [][NextDedup]_vars

(***************************************************************************)
(* The edge interpolation applied on its own: the member function and the  *)
(* copy local to the extractor, on densities at, near and far from the     *)
(* threshold                                                               *)
(***************************************************************************)
InterpThresholds == {0, DensityOne \div 10}
InterpOffsets ==
    {-(InterpTolerance + 7), -(InterpTolerance + 2), -(InterpTolerance \div 2), 0,
     InterpTolerance \div 2, InterpTolerance + 2, InterpTolerance + 7, DensityOne \div 2}
InterpEndpoints == {<<2 * PosOne, 0, 0>>, <<0, 2 * PosOne, 0>>, <<0, 0, 2 * PosOne>>}

InitInterp ==
    /\ ManagerIdle
    /\ \E Threshold \in InterpThresholds, o1 \in InterpOffsets, o2 \in InterpOffsets,
          P2 \in InterpEndpoints :
           Bench = [Threshold |-> Threshold,
                    P1 |-> <<0, 0, 0>>,
                    P2 |-> P2,
                    V1 |-> Threshold + o1,
                    V2 |-> Threshold + o2,
                    Function |-> "",
                    Result |-> <<>>,
                    Divided |-> FALSE]

\* InterpolateVertex(P1, P2, V1, V2) of a chunk whose CaveThreshold is the
\* threshold
RunInterpolateVertex ==
    /\ Bench.Function = ""
    /\ Bench' = [Bench EXCEPT
                     !.Function = "InterpolateVertex",
                     !.Result = InterpolateVertex(Bench.Threshold, Bench.P1, Bench.P2,
                                                  Bench.V1, Bench.V2),
                     !.Divided = InterpDivides(Bench.V1, Bench.V2, Bench.Threshold)]
    /\ UNCHANGED managerVars

\* the Interp lambda of BuildMeshFromDensityFieldCached
RunInterp ==
    /\ Bench.Function = ""
    /\ Bench' = [Bench EXCEPT
                     !.Function = "Interp",
                     !.Result = Interp(Bench.P1, Bench.P2, Bench.V1, Bench.V2,
                                       Bench.Threshold),
                     !.Divided = InterpDivides(Bench.V1, Bench.V2, Bench.Threshold)]
    /\ UNCHANGED managerVars

NextInterp ==
    \/ RunInterpolateVertex
    \/ RunInterp

SpecInterp == InitInterp /\ [][NextInterp]_vars

(***************************************************************************)
(* The surface extraction applied on its own, to density fields that have  *)
(* one value everywhere but at one sample, where they have the same or a   *)
(* lower one: all at or above the threshold, all below it, or solid with   *)
(* one sample of air (the configurations TriTable above has rows for)      *)
(***************************************************************************)
\* (value everywhere else, value at the one sample), relative to the threshold
ExtractValuePairs ==
    LET Values == {DensityOne \div 2, 0, -1, -(DensityOne \div 2)}
    IN  {pair \in Values \X Values :
            /\ pair[2] <= pair[1]
            /\ (pair[1] >= 0 /\ pair[2] < 0) => pair = <<DensityOne \div 2, -(DensityOne \div 2)>>}

InitExtract ==
    /\ ManagerIdle
    /\ \E Size \in 1..ModelChunkSize, Threshold \in InterpThresholds,
          pair \in ExtractValuePairs :
           \E p \in 1..((Size + 1) * (Size + 1) * (Size + 1)) :
               Bench = [ChunkSize |-> Size,
                        Threshold |-> Threshold,
                        DensityField |->
                            [i \in 1..((Size + 1) * (Size + 1) * (Size + 1)) |->
                                Threshold + (IF i = p THEN pair[2] ELSE pair[1])],
                        Applied |-> FALSE,
                        Vertices |-> <<>>,
                        Triangles |-> <<>>,
                        Normals |-> <<>>]

\* BuildMeshFromDensityFieldCached on the field, for a chunk at the origin
\* whose CaveThreshold is the threshold
RunBuildMeshFromDensityFieldCached ==
    /\ ~Bench.Applied
    /\ \E m \in {BuildMeshFromDensityFieldCached(Bench.DensityField, Bench.ChunkSize + 1,
                                                   Bench.ChunkSize, ModelVoxelSize,
                                                   <<0, 0, 0>>, Bench.Threshold)} :
           Bench' = [Bench EXCEPT !.Applied = TRUE,
                                  !.Vertices = m.Vertices,
                                  !.Triangles = m.Triangles,
                                  !.Normals = m.Normals]
    /\ UNCHANGED managerVars

NextExtract == RunBuildMeshFromDensityFieldCached

SpecExtract == InitExtract /\ [][NextExtract]_vars

(***************************************************************************)
(* Properties                                                              *)
(***************************************************************************)
ActorIds == 1..Len(Actors)
QueuedCoordinates == {ChunkGenerationQueue[i].Coordinate : i \in 1..Len(ChunkGenerationQueue)}

\* C1: under every operation of the manager, a chunk whose generation flag
\* is set is neither destroyed nor put into the pool by the step.
C1_NoTeardownWhileGenerating ==
    [][\A id \in ActorIds :
          (Actors[id].Alive /\ Actors[id].bIsGenerating)
              => (Actors'[id].Alive /\ id \notin Range(ChunkPool'))]_vars

\* C2: an eviction pass (UpdateAroundPlayer) leaves every active chunk that
\* is not required but is generating in the map, entry and actor unchanged,
\* and removes every active chunk that is not required and not generating;
\* so a chunk passed over is removed by a later pass once its flag is clear.
C2_EvictionDeferredWhileGenerating ==
    [][Last'.Op = "UpdateAroundPlayer" =>
          \A c \in DOMAIN ActiveChunks :
              c \notin Last'.Required =>
                  IF Actors[ActiveChunks[c].ChunkActor].bIsGenerating
                  THEN /\ c \in DOMAIN ActiveChunks'
                       /\ ActiveChunks'[c] = ActiveChunks[c]
                       /\ Actors'[ActiveChunks[c].ChunkActor] = Actors[ActiveChunks[c].ChunkActor]
                  ELSE c \notin DOMAIN ActiveChunks']_vars

\* an eviction pass has just run, and a chunk an earlier pass had left
\* alone because it was generating is now in the pool
C2_Witness ==
    /\ Last.Op = "UpdateAroundPlayer"
    /\ \E id \in DeferredEver : id \in Range(ChunkPool) /\ ~Actors[id].bIsGenerating

\* C3: a coordinate registered in the active map with its generated flag
\* true belongs to a chunk whose generation flag is clear.
C3_RegisteredOnlyAfterCompletion ==
    \A c \in DOMAIN ActiveChunks :
        ActiveChunks[c].bIsGenerated => ~Actors[ActiveChunks[c].ChunkActor].bIsGenerating

\* C4: the queue never holds two tasks for one coordinate nor a task for an
\* active coordinate, and GenerateChunkAt for a coordinate that is queued
\* or active changes nothing of the manager's state.
C4_QueueUniqueAndIdempotent ==
    /\ [](/\ \A i, j \in 1..Len(ChunkGenerationQueue) :
                 ChunkGenerationQueue[i].Coordinate = ChunkGenerationQueue[j].Coordinate
                     => i = j
          /\ \A i \in 1..Len(ChunkGenerationQueue) :
                 ChunkGenerationQueue[i].Coordinate \notin DOMAIN ActiveChunks)
    /\ [][(/\ Last'.Op = "GenerateChunkAt"
           /\ Last'.Coordinate \in QueuedCoordinates \cup DOMAIN ActiveChunks)
             => UNCHANGED <<ChunkGenerationQueue, ChunksInQueue, ActiveChunks, ActiveSlots,
                            ActiveFree, ChunkPool, Actors, AsyncTasks, GameThreadTasks,
                            LastPlayerPosition>>]_vars

\* GenerateChunkAt has just been called for a coordinate that is active
\* while other coordinates wait in the queue
C4_Witness ==
    /\ Last.Op = "GenerateChunkAt"
    /\ Last.Coordinate \in DOMAIN ActiveChunks
    /\ Len(ChunkGenerationQueue) > 0

\* C7: no task left in the queue when a task is taken has a strictly
\* higher priority than the task taken.
C7_PoppedInPriorityOrder ==
    \A i \in 1..Len(Last.Popped) :
        \A k \in 1..Len(Last.Popped[i].Remaining) :
            ~PriorityGreater(Last.Popped[i].Remaining[k].Priority, Last.Popped[i].Task.Priority)

\* a tick has taken a task while a task of strictly lower priority stayed
\* behind
C7_Witness ==
    /\ Last.Op = "TickUpdate"
    /\ \E i \in 1..Len(Last.Popped) :
           \E k \in 1..Len(Last.Popped[i].Remaining) :
               PriorityGreater(Last.Popped[i].Task.Priority, Last.Popped[i].Remaining[k].Priority)

\* twice the coordinates of the centre of a chunk: its origin plus half its
\* extent on every axis
TwiceTrueCenter(ChunkCoordinate) ==
    [i \in 1..3 |-> 2 * ChunkCoordinate[i] * ChunkSize * VoxelSize + ChunkSize * VoxelSize]

\* four times the squared distance from the viewer to the centre of a chunk
TrueDistance(Player, ChunkCoordinate) ==
    DistSquared(VecScale(Player, 2), TwiceTrueCenter(ChunkCoordinate))

\* C8: the chunk of a task taken from the queue has its centre at least as
\* close to the last reported viewer position as the chunk of every task
\* still pending.
C8_NearestChunkFirst ==
    LastPlayerPosition # <<>> =>
        \A i \in 1..Len(Last.Popped) :
            \A k \in 1..Len(Last.Popped[i].Remaining) :
                TrueDistance(LastPlayerPosition[1], Last.Popped[i].Task.Coordinate)
                    <= TrueDistance(LastPlayerPosition[1],
                                    Last.Popped[i].Remaining[k].Coordinate)

\* C9: one tick starts at most ChunksPerFrame generation passes, and none
\* when ChunksPerFrame is zero or negative.
C9_TickBudget ==
    Last.Op = "TickUpdate" =>
        /\ Last.Started <= Max(ChunksPerFrame, 0)
        /\ Len(Last.Broadcast) <= Max(ChunksPerFrame, 0)

\* a tick has used its whole budget, the largest explored, and tasks are
\* left over
C9_Witness ==
    /\ Last.Op = "TickUpdate"
    /\ ChunksPerFrame = MaxChunksPerFrame
    /\ Last.Started = ChunksPerFrame
    /\ Len(ChunkGenerationQueue) > 0

\* C5: the buffers a worker hands to the game thread are those computed
\* from the chunk as it was when the pass was dispatched, whatever has been
\* set on the chunk since.
C5_ResultFromCapturedValues ==
    \A i \in 1..Len(GameThreadTasks) :
        Actors[GameThreadTasks[i].WeakThis].Alive =>
            GameThreadTasks[i]
                = WorkerResult(CapturedValues(DispatchSnapshot[GameThreadTasks[i].WeakThis][1],
                                              GameThreadTasks[i].WeakThis),
                               DispatchSnapshot[GameThreadTasks[i].WeakThis][1])

\* C6: every write of a generation pass to the density field, the
\* vertices, the triangles or the normals of a chunk is made while the
\* mutex of that chunk is held.
C6_CommitWritesUnderLock ==
    \A id \in ActorIds : \A w \in Actors[id].Writes : w.Locked

\* the coordinates the view volume around a chunk coordinate consists of
ViewVolume(PlayerChunk, View) ==
    {VecAdd(PlayerChunk, <<dx, dy, dz>>) :
        <<dx, dy, dz>> \in {o \in (-View..View) \X (-View..View) \X (-2..2) :
                               o[1] * o[1] + o[2] * o[2] + o[3] * o[3] <= View * View}}

\* C10: the required set of UpdateAroundPlayer is the view volume around
\* the chunk of the viewer; after the call every coordinate of it is active
\* or queued, the call has queued no coordinate outside it, and it has
\* evicted no active coordinate inside it.
C10_RequiredSetExact ==
    /\ [](Last.Op = "UpdateAroundPlayer" =>
             /\ Last.Required
                    = ViewVolume(WorldToChunkCoordinate(LastPlayerPosition[1]), ViewDistance)
             /\ \A c \in Last.Required : c \in DOMAIN ActiveChunks \cup QueuedCoordinates)
    /\ [][Last'.Op = "UpdateAroundPlayer" =>
             /\ \A c \in QueuedCoordinates' \ QueuedCoordinates :
                    c \in ViewVolume(WorldToChunkCoordinate(LastPlayerPosition'[1]),
                                     ViewDistance)
             /\ \A c \in DOMAIN ActiveChunks :
                    c \in ViewVolume(WorldToChunkCoordinate(LastPlayerPosition'[1]),
                                     ViewDistance)
                        => c \in DOMAIN ActiveChunks']_vars

\* UpdateAroundPlayer has just run with the largest view distance: one
\* required coordinate is active, others are queued, and the coordinate
\* three chunks above the viewer, inside the sphere, is not required
C10_Witness ==
    /\ Last.Op = "UpdateAroundPlayer"
    /\ ViewDistance = MaxViewDistance
    /\ \E c \in Last.Required : c \in DOMAIN ActiveChunks
    /\ \E c \in Last.Required : c \in QueuedCoordinates
    /\ VecAdd(WorldToChunkCoordinate(LastPlayerPosition[1]), <<0, 0, MaxViewDistance>>)
           \notin Last.Required
\* C11: the pool never holds more than MaxPoolSize chunks; an eviction pass
\* only appends to the pool, up to its capacity, and every chunk it evicts
\* is afterwards in the pool or, the pool being full, destroyed.
C11_PoolBounded ==
    /\ [](Len(ChunkPool) <= MaxPoolSize)
    /\ [][Last'.Op = "UpdateAroundPlayer" =>
             LET Evicted == {ActiveChunks[c].ChunkActor :
                                c \in DOMAIN ActiveChunks \ DOMAIN ActiveChunks'}
             IN  /\ Len(ChunkPool') = Min(MaxPoolSize, Len(ChunkPool) + Cardinality(Evicted))
                 /\ SubSeq(ChunkPool', 1, Len(ChunkPool)) = ChunkPool
                 /\ Len(ChunkPool) = MaxPoolSize => ChunkPool' = ChunkPool
                 /\ \A id \in Evicted :
                        IF id \in Range(ChunkPool') THEN Actors'[id].Alive
                        ELSE ~Actors'[id].Alive /\ Len(ChunkPool') = MaxPoolSize]_vars

\* an eviction pass has filled the pool and destroyed a chunk it had no
\* room for
C11_Witness ==
    /\ Last.Op = "UpdateAroundPlayer"
    /\ Len(ChunkPool) = MaxPoolSize
    /\ \E id \in ActorIds : ~Actors[id].Alive
\* C12: a coordinate whose generation was rejected for its chunk size is
\* not in the active map.
C12_RejectedChunkStaysAbsent ==
    \A c \in DOMAIN ActiveChunks :
        Actors[ActiveChunks[c].ChunkActor].Alive
            => ~InvalidChunkSize(Actors[ActiveChunks[c].ChunkActor].ChunkSize)
\* C13: a generation request with a chunk size outside 1..128 leaves the
\* coordinate, the voxel size, the chunk size, the density field and the
\* mesh buffers of the chunk as they were, and the generation flag clear.
C13_InvalidSizeRejectedUnchanged ==
    [][(Last'.Op = "GenerateMesh" /\ InvalidChunkSize(Last'.InChunkSize)) =>
          /\ Actors'[1].ChunkCoord = Actors[1].ChunkCoord
          /\ Actors'[1].VoxelSize = Actors[1].VoxelSize
          /\ Actors'[1].ChunkSize = Actors[1].ChunkSize
          /\ Actors'[1].DensityField = Actors[1].DensityField
          /\ Actors'[1].Vertices = Actors[1].Vertices
          /\ Actors'[1].Triangles = Actors[1].Triangles
          /\ Actors'[1].Normals = Actors[1].Normals
          /\ Actors'[1].UVs = Actors[1].UVs
          /\ Actors'[1].bIsGenerating = Actors[1].bIsGenerating]_vars
\* the coordinate is active, the viewer's last update did not require it
\* and left it alone because it was generating, and its flag is now clear
EvictionOverdue(c) ==
    /\ c \in DOMAIN ActiveChunks
    /\ ActiveChunks[c].ChunkActor \in DeferredEver
    /\ ~Actors[ActiveChunks[c].ChunkActor].bIsGenerating
    /\ LastPlayerPosition # <<>>
    /\ c \notin Range(RequiredSequence(WorldToChunkCoordinate(LastPlayerPosition[1]),
                                       ViewDistance))

\* C14: a chunk whose eviction is overdue is eventually removed from the
\* active map, the timer ticking on, whether or not the viewer reports a
\* position again.
C14_DeferredEvictionByTicks ==
    \A c \in TimerCoords : EvictionOverdue(c) ~> (c \notin DOMAIN ActiveChunks)

\* what the renderable sink of a chunk holds is what the four buffers of the
\* chunk hold
SectionIsCommittedBuffers(a) ==
    /\ a.MeshSection[1].Vertices = a.Vertices
    /\ a.MeshSection[1].Triangles = a.Triangles
    /\ a.MeshSection[1].Normals = a.Normals
    /\ a.MeshSection[1].UVs = a.UVs

DegenerateTriangles(Triangles) ==
    {t \in 0..((Len(Triangles) \div 3) - 1) :
        \/ Triangles[3 * t + 1] = Triangles[3 * t + 2]
        \/ Triangles[3 * t + 2] = Triangles[3 * t + 3]
        \/ Triangles[3 * t + 1] = Triangles[3 * t + 3]}

\* C16: what the spatial-hash routine or the sort-based routine returns has
\* no triangle with an index twice.
C16_NoDegenerateAfterAsyncDedup ==
    Bench.Routine \in {"DeduplicateVerticesAsync", "DeduplicateVerticesAsync_Sort"}
        => DegenerateTriangles(Bench.Triangles) = {}

\* C17: a routine applied to the mesh it returned, with the same merge
\* distance, returns as many vertices and as many triangle indices as it
\* was given.
C17_DedupIdempotent ==
    Bench.Passes >= 2 =>
        /\ Len(Bench.Vertices) = Bench.Before.Vertices
        /\ Len(Bench.Triangles) = Bench.Before.Triangles

\* an interpolation has been applied to two densities less than the
\* tolerance apart
InterpolatedNearEqual ==
    /\ Bench.Function # ""
    /\ Abs(Bench.V1 - Bench.V2) < InterpTolerance

\* the second density is within the tolerance of the threshold and the
\* first is not
OnlySecondAtThreshold ==
    /\ ~(Abs(Bench.Threshold - Bench.V1) < InterpTolerance)
    /\ Abs(Bench.Threshold - Bench.V2) < InterpTolerance

\* C18, as stated: for two densities less than the tolerance apart, either
\* interpolation returns the first endpoint and does not divide.
C18_ReturnsFirstEndpoint ==
    InterpolatedNearEqual => (Bench.Result = Bench.P1 /\ ~Bench.Divided)

\* C18, amended: for two densities less than the tolerance apart, either
\* interpolation does not divide, and returns the first endpoint unless
\* only the second density is within the tolerance of the threshold, in
\* which case it returns the second endpoint; on an edge that crosses the
\* threshold (one density below it, the other not) it returns the first.
C18_NearEqualNoDivision ==
    InterpolatedNearEqual =>
        /\ ~Bench.Divided
        /\ Bench.Result = IF OnlySecondAtThreshold THEN Bench.P2 ELSE Bench.P1
        /\ ((Bench.V1 < Bench.Threshold) # (Bench.V2 < Bench.Threshold))
               => Bench.Result = Bench.P1

\* two different densities less than the tolerance apart, both away from
\* the threshold: the third test returned the first endpoint
C18_Witness ==
    /\ InterpolatedNearEqual
    /\ Bench.V1 # Bench.V2
    /\ ~(Abs(Bench.Threshold - Bench.V1) < InterpTolerance)
    /\ ~(Abs(Bench.Threshold - Bench.V2) < InterpTolerance)
    /\ Bench.Result = Bench.P1

\* C19: a chunk that is not generating and holds a density field holds one
\* of (ChunkSize + 1)^3 samples, for the ChunkSize it stores.
C19_DensityFieldLength ==
    \A id \in ActorIds :
        (Actors[id].Alive /\ ~Actors[id].bIsGenerating /\ Actors[id].DensityField # <<>>)
            => Len(Actors[id].DensityField)
                   = (Actors[id].ChunkSize + 1) * (Actors[id].ChunkSize + 1)
                         * (Actors[id].ChunkSize + 1)

\* every sample of the field is at or above the threshold
AllSolid == \A i \in DOMAIN Bench.DensityField : Bench.DensityField[i] >= Bench.Threshold
\* every sample of the field is below the threshold
AllEmpty == \A i \in DOMAIN Bench.DensityField : Bench.DensityField[i] < Bench.Threshold

\* C20: the extraction of a field whose samples are all at or above the
\* threshold, or all below it, returns no vertex and no triangle.
C20_UniformFieldNoSurface ==
    (Bench.Applied /\ (AllSolid \/ AllEmpty))
        => (Bench.Vertices = <<>> /\ Bench.Triangles = <<>>)

\* a field of the largest size with two different values, all below the
\* threshold, has been extracted
C20_Witness ==
    /\ Bench.Applied
    /\ AllEmpty
    /\ Bench.ChunkSize = ModelChunkSize
    /\ \E i, j \in DOMAIN Bench.DensityField : Bench.DensityField[i] # Bench.DensityField[j]
    /\ Bench.Vertices = <<>>

\* the completions still to come for actor id: lambdas the thread pool has
\* not run and tasks the game thread has not run
PendingCompletions(id) ==
    {w \in AsyncTasks : w.WeakThis = id}
        \cup {GameThreadTasks[k] : k \in {j \in 1..Len(GameThreadTasks) :
                                             GameThreadTasks[j].WeakThis = id}}

\* C21: every chunk in the pool has its generation flag clear, empty mesh
\* buffers, an empty density field and an empty mesh section, and no
\* completion is pending for it
C21_PooledChunksIdle ==
    \A i \in 1..Len(ChunkPool) :
        LET a == Actors[ChunkPool[i]]
        IN  /\ a.Alive
            /\ ~a.bIsGenerating
            /\ a.Vertices = <<>> /\ a.Triangles = <<>> /\ a.Normals = <<>>
            /\ a.UVs = <<>> /\ a.DensityField = <<>> /\ a.MeshSection = <<>>
            /\ PendingCompletions(ChunkPool[i]) = {}

\* a chunk generated asynchronously is in the pool while the completion of
\* another chunk is still to come
C21_Witness ==
    /\ ChunkPool # <<>>
    /\ bUseAsyncGeneration
    /\ AsyncTasks # {} \/ GameThreadTasks # <<>>

\* the bands of the level of detail: 0 up to 5000, 1 up to 10000, 2 up to
\* 20000, 3 beyond
LODBand(c) ==
    LET DistSq == DistSquared(LastPlayerPosition[1], ChunkCenter(c))
    IN  IF DistSq <= 5000 * 5000 THEN 0
        ELSE IF DistSq <= 10000 * 10000 THEN 1
        ELSE IF DistSq <= 20000 * 20000 THEN 2
        ELSE 3

\* the level stored for c when the LOD pass of a tick begins: the level of
\* the state before the tick, or the 0 of an entry the tick has just added
StoredLOD(c) == IF c \in DOMAIN ActiveChunks THEN ActiveChunks[c].CurrentLOD ELSE 0

\* C22: a tick notifies exactly the chunks whose band differs from their
\* stored level and stores the band for them, leaving every other stored
\* level as it was; a tick that follows a tick and leaves the active set as
\* it was notifies no chunk; a tick before the first viewer update notifies
\* no chunk
C22_NotifiedOnBandChangeOnly ==
    [][Last'.Op = "TickUpdate" =>
          /\ Last'.Notified =
                 IF LastPlayerPosition = <<>> THEN {}
                 ELSE {[Coordinate |-> c, LODLevel |-> LODBand(c)] :
                          c \in {d \in DOMAIN ActiveChunks' : StoredLOD(d) # LODBand(d)}}
          /\ \A c \in DOMAIN ActiveChunks' :
                 ActiveChunks'[c].CurrentLOD =
                     IF LastPlayerPosition = <<>> THEN StoredLOD(c) ELSE LODBand(c)
          /\ \A c \in DOMAIN ActiveChunks' :
                 (LastPlayerPosition = <<>> \/ StoredLOD(c) = LODBand(c))
                     => \A n \in Last'.Notified : n.Coordinate # c
          /\ (Last.Op = "TickUpdate" /\ DOMAIN ActiveChunks' = DOMAIN ActiveChunks)
                 => Last'.Notified = {}]_vars

\* a tick that starts no generation has notified no chunk although a chunk
\* is stored at a level other than the initial one
C22_Witness ==
    /\ Last.Op = "TickUpdate"
    /\ Last.Started = 0
    /\ Last.Notified = {}
    /\ \E c \in DOMAIN ActiveChunks : ActiveChunks[c].CurrentLOD # 0

\* the mesh the extraction gives for the density field chunk a holds
ExtractedMesh(a) ==
    BuildMeshFromDensityFieldCached(a.DensityField, a.ChunkSize + 1, a.ChunkSize,
                                    a.VoxelSize, a.ActorLocation, a.CaveThreshold)

\* C23: a chunk at rest whose extraction gives fewer vertices than its
\* MinVerticesForDeduplication holds the mesh exactly as extracted, in its
\* buffers and in its mesh section
C23_SmallMeshNotDeduplicated ==
    \A id \in 1..Len(Actors) :
        (Actors[id].Alive /\ ~Actors[id].bIsGenerating /\ Actors[id].MeshSection # <<>>) =>
            \A m \in {ExtractedMesh(Actors[id])} :
                Len(m.Vertices) < Actors[id].MinVerticesForDeduplication =>
                    /\ Actors[id].Vertices = m.Vertices
                    /\ Actors[id].Triangles = m.Triangles
                    /\ Actors[id].Normals = m.Normals
                    /\ Actors[id].MeshSection[1].Vertices = m.Vertices
                    /\ Actors[id].MeshSection[1].Triangles = m.Triangles
                    /\ Actors[id].MeshSection[1].Normals = m.Normals

\* the lattice edges of a chunk of N cubes a side: the anchor (its lower
\* corner) and the axis (0, 1, 2) it runs along
AxisUnit(axis) == [i \in 1..3 |-> IF i = axis + 1 THEN 1 ELSE 0]

LatticeEdges(N) ==
    {e \in (0..N) \X (0..N) \X (0..N) \X (0..2) : e[e[4] + 1] < N}

\* the density sample at the lattice point p of the bench field
BenchSample(p) ==
    Sample(Bench.DensityField, Bench.ChunkSize + 1, Bench.ChunkSize, p[1], p[2], p[3])

EdgeEnd(e) == VecAdd(<<e[1], e[2], e[3]>>, AxisUnit(e[4]))

\* the lattice edges whose two ends lie on different sides of the threshold
CrossedEdges ==
    {e \in LatticeEdges(Bench.ChunkSize) :
        (BenchSample(e) < Bench.Threshold) # (BenchSample(EdgeEnd(e)) < Bench.Threshold)}

\* the crossing point of a lattice edge
CrossingPoint(e) ==
    Interp(VecScale(<<e[1], e[2], e[3]>>, ModelVoxelSize * PosOne),
           VecScale(EdgeEnd(e), ModelVoxelSize * PosOne),
           BenchSample(e), BenchSample(EdgeEnd(e)), Bench.Threshold)

\* the cubes of the chunk that have the lattice edge e among their twelve
CubesSharing(e) ==
    {k \in (0..(Bench.ChunkSize - 1)) \X (0..(Bench.ChunkSize - 1)) \X (0..(Bench.ChunkSize - 1)) :
        \A i \in 1..3 :
            IF i = e[4] + 1 THEN k[i] = e[i] ELSE (k[i] = e[i] \/ k[i] = e[i] - 1)}

\* the largest value of the int32 the key is returned in
MaxInt32 == 2147483647

\* the key of a lattice edge and the edge a key stands for
KeyOfEdge(e, sampleSize) == EdgeKey(e[1], e[2], e[3], e[4], sampleSize)

EdgeOfKey(key, sampleSize) ==
    <<(key \div 16) % sampleSize,
      ((key \div 16) \div sampleSize) % sampleSize,
      (key \div 16) \div (sampleSize * sampleSize),
      key % 16>>

\* the lattice edges at the corners of the largest chunk the code accepts
LargestChunkCornerEdges ==
    {e \in {0, MaxValidChunkSize - 1, MaxValidChunkSize} \X {0, MaxValidChunkSize - 1, MaxValidChunkSize}
                \X {0, MaxValidChunkSize - 1, MaxValidChunkSize} \X (0..2) :
        e[e[4] + 1] < MaxValidChunkSize}

\* C24: the cached extraction makes one vertex for each crossed lattice edge
\* and no other: the vertex count is the number of crossed edges, each
\* crossed edge has exactly one vertex at its crossing point, every cube
\* sharing the edge refers to that vertex, the edge keys of the chunk are
\* pairwise different, and the keys of the largest chunk size stay below 2^31
C24_OneVertexPerCrossedEdge ==
    Bench.Applied =>
        /\ Len(Bench.Vertices) = Cardinality(CrossedEdges)
        /\ \A e \in CrossedEdges :
               \E i \in 1..Len(Bench.Vertices) :
                   /\ Bench.Vertices[i] = CrossingPoint(e)
                   /\ \A j \in 1..Len(Bench.Vertices) :
                          Bench.Vertices[j] = CrossingPoint(e) => j = i
                   /\ Cardinality({t \in 1..Len(Bench.Triangles) : Bench.Triangles[t] = i - 1})
                          = Cardinality(CubesSharing(e))
        /\ \A t \in 1..Len(Bench.Triangles) :
               Bench.Triangles[t] \in 0..(Len(Bench.Vertices) - 1)
        /\ \A e1, e2 \in LatticeEdges(Bench.ChunkSize) :
               KeyOfEdge(e1, Bench.ChunkSize + 1) = KeyOfEdge(e2, Bench.ChunkSize + 1) => e1 = e2
        /\ \A e \in LargestChunkCornerEdges :
               /\ KeyOfEdge(e, MaxValidChunkSize + 1) \in 0..MaxInt32
               /\ EdgeOfKey(KeyOfEdge(e, MaxValidChunkSize + 1), MaxValidChunkSize + 1) = e

\* a sample inside a chunk of two cubes a side lies below the threshold alone:
\* six crossed edges, each shared by four of the eight cubes
C24_Witness ==
    /\ Bench.Applied
    /\ Bench.ChunkSize = 2
    /\ Cardinality(CrossedEdges) = 6
    /\ Len(Bench.Vertices) = 6
    /\ Len(Bench.Triangles) = 24

\* the place of the task for coordinate c in the queue q (0 when absent)
QueuePlace(q, c) ==
    IF \E i \in 1..Len(q) : q[i].Coordinate = c
    THEN CHOOSE i \in 1..Len(q) : q[i].Coordinate = c
    ELSE 0

\* neither priority sorts before the other
EqualPriority(A, B) == ~PriorityGreater(A, B) /\ ~PriorityGreater(B, A)

\* C25: a GenerateChunkAt call that adds a task leaves every task of equal
\* priority that was already queued ahead of the new task, and leaves queued
\* tasks of equal priority in the order they had, so that they are removed
\* in the order they were added
C25_TiesInInsertionOrder ==
    [][(Last'.Op = "GenerateChunkAt" /\ Len(ChunkGenerationQueue') = Len(ChunkGenerationQueue) + 1)
         => /\ \A i \in 1..Len(ChunkGenerationQueue) :
                   EqualPriority(ChunkGenerationQueue[i].Priority,
                                 ChunkGenerationQueue'[QueuePlace(ChunkGenerationQueue',
                                                                  Last'.Coordinate)].Priority)
                       => QueuePlace(ChunkGenerationQueue', ChunkGenerationQueue[i].Coordinate)
                              < QueuePlace(ChunkGenerationQueue', Last'.Coordinate)
            /\ \A i, j \in 1..Len(ChunkGenerationQueue) :
                   (i < j /\ EqualPriority(ChunkGenerationQueue[i].Priority,
                                           ChunkGenerationQueue[j].Priority))
                       => QueuePlace(ChunkGenerationQueue', ChunkGenerationQueue[i].Coordinate)
                              < QueuePlace(ChunkGenerationQueue', ChunkGenerationQueue[j].Coordinate)]_vars

(***************************************************************************)
(* Terrain modification.                                                   *)
(***************************************************************************)
\* a ModifyTerrain that lowers the stored density by the strength
ModifyTerrainCarving(a, WorldLocation, Radius, Strength) ==
    [a EXCEPT !.DensityField = [i \in DOMAIN a.DensityField |->
                                    a.DensityField[i] - Strength * DensityOne]]

\* ACaveChunk::ModifyTerrain: writes a log line
ModifyTerrain(a, WorldLocation, Radius, Strength) == a

\* int32 ChunkRadius = FMath::CeilToInt(Radius / ChunkWorldSize) + 1
ChunkRadius(Radius) == -FloorDiv(-Radius, ChunkWorldSize) + 1

\* the coordinates the X, Y, Z loops of ModifyTerrainAt visit
ModifyRange(WorldLocation, Radius) ==
    {VecAdd(WorldToChunkCoordinate(WorldLocation), <<X, Y, Z>>) :
        X \in -ChunkRadius(Radius)..ChunkRadius(Radius),
        Y \in -ChunkRadius(Radius)..ChunkRadius(Radius),
        Z \in -ChunkRadius(Radius)..ChunkRadius(Radius)}

\* the manager after ModifyTerrainAt
ModifyTerrainAtResult(m, WorldLocation, Radius, Strength) ==
    LET Affected == {c \in DOMAIN m.Active :
                   /\ c \in ModifyRange(WorldLocation, Radius)
                   /\ m.Active[c].ChunkActor # 0}
    IN  IF Affected = {} THEN m
        ELSE [m EXCEPT
                 !.Actors = [id \in 1..Len(m.Actors) |->
                                IF \E c \in Affected : m.Active[c].ChunkActor = id
                                THEN ModifyTerrain(m.Actors[id], WorldLocation, Radius, Strength)
                                ELSE m.Actors[id]],
                 !.Active = [c \in DOMAIN m.Active |->
                                IF c \in Affected THEN [m.Active[c] EXCEPT !.bNeedsRebuild = TRUE]
                                ELSE m.Active[c]]]

ModifyLocations == {<<0, 1, 2>>, <<17, 1, 2>>}
ModifyRadii == {0, 5}
ModifyStrengths == {-1, 1}

ModifyTerrainAt(WorldLocation, Radius, Strength) ==
    /\ DriverReady
    /\ \E m \in {ModifyTerrainAtResult(Manager, WorldLocation, Radius, Strength)} :
           DriverStep(m, LastPlayerPosition, "ModifyTerrainAt",
                      ModifyRange(WorldLocation, Radius), <<>>)
    /\ UNCHANGED Initialized

\* the manager with requests, viewer updates, ticks, both generation modes
\* and terrain modifications
NextModify ==
    \/ \E c \in RequestCoords : GenerateChunkAt(c)
    \/ \E p \in PlayerPositions : UpdateAroundPlayer(p)
    \/ TickUpdate
    \/ \E w \in AsyncTasks : WorkerRun(w)
    \/ GameThreadRun
    \/ \E l \in ModifyLocations, r \in ModifyRadii, s \in ModifyStrengths :
           ModifyTerrainAt(l, r, s)

SpecModify == Init /\ [][NextModify]_vars

\* an active-map entry with its dirty flag left out
WithoutDirtyFlag(d) == [d EXCEPT !.bNeedsRebuild = FALSE]

C27_OnePassInFlight ==
    /\ [](\A id \in 1..Len(Actors) :
              /\ Cardinality(PendingCompletions(id)) <= 1
              /\ Actors[id].bIsGenerating <=> PendingCompletions(id) # {})
    /\ [][(Last'.Op = "GenerateMesh" /\ Actors[1].bIsGenerating)
            => UNCHANGED <<Actors, AsyncTasks, GameThreadTasks>>]_vars
    /\ [][(\E id \in 1..Len(Actors) : Actors[id].bIsGenerating /\ ~Actors'[id].bIsGenerating)
            => Last'.Op = "GameThreadRun"]_vars

\* a request for another coordinate has returned from a chunk whose
\* asynchronous pass is still in flight
C27_Witness ==
    /\ Last.Op = "GenerateMesh"
    /\ Actors[1].bIsGenerating
    /\ Last.Coordinate # Actors[1].ChunkCoord
    /\ PendingCompletions(1) # {}

\* the coordinates whose active-map entry refers to the chunk id, and the
\* places the chunk has in the pool
ActiveCoordinatesOf(id) == {c \in DOMAIN ActiveChunks : ActiveChunks[c].ChunkActor = id}

PoolPlacesOf(id) == {k \in 1..Len(ChunkPool) : ChunkPool[k] = id}

\* C28: every chunk that has not been destroyed is referred to by exactly
\* one active-map entry or has exactly one place in the pool, never both; no
\* entry and no pool place refers to a destroyed chunk; and a chunk whose
\* entry leaves the active map is in the pool or destroyed after the step
C28_ChunksConserved ==
    /\ [](\A id \in 1..Len(Actors) :
              IF Actors[id].Alive
              THEN Cardinality(ActiveCoordinatesOf(id)) + Cardinality(PoolPlacesOf(id)) = 1
              ELSE ActiveCoordinatesOf(id) = {} /\ PoolPlacesOf(id) = {})
    /\ [](\A c \in DOMAIN ActiveChunks : ActiveChunks[c].ChunkActor \in 1..Len(Actors))
    /\ [][\A c \in DOMAIN ActiveChunks :
              (c \notin DOMAIN ActiveChunks' \/ ActiveChunks'[c].ChunkActor # ActiveChunks[c].ChunkActor)
                  => \/ ~Actors'[ActiveChunks[c].ChunkActor].Alive
                     \/ /\ ActiveChunks[c].ChunkActor \in Range(ChunkPool')
                        /\ \A d \in DOMAIN ActiveChunks' :
                               ActiveChunks'[d].ChunkActor # ActiveChunks[c].ChunkActor]_vars

\* a viewer update has moved a chunk from the active map into the pool
\* while another chunk stays active
C28_Witness ==
    /\ Last.Op = "UpdateAroundPlayer"
    /\ ChunkPool # <<>>
    /\ DOMAIN ActiveChunks # {}

\* the coordinates the last viewer update required
RequiredNow ==
    IF LastPlayerPosition = <<>> THEN {}
    ELSE Range(RequiredSequence(WorldToChunkCoordinate(LastPlayerPosition[1]), ViewDistance))

\* nothing is left to generate: the queue is empty, the required coordinates
\* are active, no chunk is generating and no completion is pending
GenerationSettled ==
    /\ ChunkGenerationQueue = <<>>
    /\ ChunksInQueue = {}
    /\ RequiredNow \subseteq DOMAIN ActiveChunks
    /\ \A id \in 1..Len(Actors) : ~Actors[id].bIsGenerating
    /\ AsyncTasks = {}
    /\ GameThreadTasks = <<>>

\* C29: with ChunksPerFrame at least 1, chunk allocation that succeeds, and
\* ticks, workers and game-thread tasks that are not starved, the manager
\* settles once the viewer stays where it is: from some point on the queue is
\* empty, every required coordinate is active and every generation flag is
\* clear
C29_EventuallySettled == <>[]GenerationSettled

\* the manager has settled after a viewer update whose chunk was generated
\* asynchronously
C29_Witness ==
    /\ GenerationSettled
    /\ LastPlayerPosition # <<>>
    /\ RequiredNow # {}
    /\ \A c \in RequiredNow : DispatchSnapshot[ActiveChunks[c].ChunkActor] # <<>>
    /\ WorldTime >= MaxTime

\* C30: the completion of a pass whose chunk was destroyed in the meantime
\* is dropped by the game thread: the step changes no chunk (so no buffer is
\* written and no mesh section is made), nor the active map, the pool or the
\* queue; the worker of such a pass changes none of them either
C30_CompletionForDestroyedChunkDropped ==
    /\ [][(Last'.Op = "GameThreadRun" /\ ~Actors[Head(GameThreadTasks).WeakThis].Alive)
            => /\ UNCHANGED <<Actors, ActiveChunks, ActiveSlots, ActiveFree, ChunkPool,
                              ChunkGenerationQueue, ChunksInQueue>>
               /\ GameThreadTasks' = Tail(GameThreadTasks)]_vars
    /\ [][Last'.Op = "WorkerRun"
            => UNCHANGED <<Actors, ActiveChunks, ActiveSlots, ActiveFree, ChunkPool,
                           ChunkGenerationQueue, ChunksInQueue>>]_vars

\* the game thread has run the completion of a chunk that was destroyed
\* while it was generating
C30_Witness ==
    /\ Last.Op = "GameThreadRun"
    /\ \E id \in 1..Len(Actors) :
           /\ ~Actors[id].Alive
           /\ Actors[id].bIsGenerating
           /\ PendingCompletions(id) = {}
           /\ Actors[id].MeshSection = <<>>

====
